---------------------------- MODULE Spec2Model ----------------------------
(***************************************************************************)
(* Task management API: the JWT token service (utils/jwt.go), the          *)
(* authentication middleware (middleware/auth.go), the router (main.go)    *)
(* and the task and auth handlers (handlers/task.go, handlers/auth.go)     *)
(* over a relational store accessed through GORM.                          *)
(*                                                                         *)
(* Text is a sequence of one-character strings, so that trimming, splitting *)
(* and number parsing are computed and not assumed.  Time is a natural     *)
(* number of clock units of 12 hours.  A run of characters that no         *)
(* operation takes apart (an email address, a word) is one element.        *)
(***************************************************************************)
EXTENDS Integers, Sequences, FiniteSets, TLC

VARIABLES
    now,        \* the wall clock (time.Now), in units of 12 hours
    users,      \* the users table: a sequence of rows, row i has id i
    tasks,      \* the tasks table: a sequence of rows, row i has id i
    req,        \* the request being served (the last one received)
    resp,       \* the response written for req
    ctx,        \* the identity the wrapped handler read from the request context
    calls,      \* how many times the middleware invoked the wrapped handler for req
    checked,    \* the credentials the middleware handed to ValidateToken for req
    issuedTok,  \* token service exercise: the inputs and output of GenerateToken
    validated,  \* token service exercise: the inputs and output of ValidateToken
    regs,       \* the Register calls in progress: where each one is, and its response
    ops         \* the task handler calls in progress: where each one is, what it read

vars == <<now, users, tasks, req, resp, ctx, calls, checked, issuedTok, validated, regs, ops>>

-----------------------------------------------------------------------------
(* Bounds of the model *)

\* the clock stops advancing at MaxTime
MaxTime == 3
\* tasks created through the API, beyond the seeded ones
MaxTasks == 2
\* the same, where requests and responses are recorded
MaxGateTasks == 1
\* the tasks of the client whose lists are paged
MaxPageTasks == 4

(* Program constants *)

\* 24 * time.Hour, in clock units of 12 hours
TokenTTL == 2
\* GetTasks: the default page, the default and the maximum page size
DefaultPage == 1
DefaultPageSize == 10
maxPageSize == 100
\* the HTTP status codes the handlers write
StatusOK == 200
StatusCreated == 201
StatusNoContent == 204
StatusBadRequest == 400
StatusUnauthorized == 401
StatusNotFound == 404
StatusMethodNotAllowed == 405
StatusConflict == 409
StatusInternalServerError == 500

-----------------------------------------------------------------------------
(* Text *)

SP == " "
Digits == <<"0", "1", "2", "3", "4", "5", "6", "7", "8", "9">>
IsDigit(c) == \E i \in 1..10 : Digits[i] = c
DigitVal(c) == (CHOOSE i \in 1..10 : Digits[i] = c) - 1

\* strings.TrimSpace: leading and trailing white space removed
NoTrim(s) == s
RECURSIVE TrimLeft(_)
TrimLeft(s) == IF s # <<>> /\ Head(s) = SP THEN TrimLeft(Tail(s)) ELSE s
RECURSIVE TrimRight(_)
TrimRight(s) ==
    IF s # <<>> /\ s[Len(s)] = SP THEN TrimRight(SubSeq(s, 1, Len(s) - 1)) ELSE s
TrimSpace(s) == TrimRight(TrimLeft(s))

\* the index of the first element of s equal to c, 0 when there is none
RECURSIVE IndexFrom(_, _, _)
IndexFrom(s, c, i) ==
    IF i > Len(s) THEN 0 ELSE IF s[i] = c THEN i ELSE IndexFrom(s, c, i + 1)
Index(s, c) == IndexFrom(s, c, 1)

\* the value of a sequence of decimal digits
RECURSIVE DecimalValue(_, _)
DecimalValue(s, acc) ==
    IF s = <<>> THEN acc ELSE DecimalValue(Tail(s), acc * 10 + DigitVal(Head(s)))

\* a numeral without its leading zeros
RECURSIVE StripZeros(_)
StripZeros(s) == IF Len(s) > 1 /\ Head(s) = "0" THEN StripZeros(Tail(s)) ELSE s

\* whether numeral a (no leading zeros) denotes a greater number than numeral b
RECURSIVE DigitsGreater(_, _)
DigitsGreater(a, b) ==
    IF a = <<>> THEN FALSE
    ELSE IF DigitVal(Head(a)) # DigitVal(Head(b))
         THEN DigitVal(Head(a)) > DigitVal(Head(b))
         ELSE DigitsGreater(Tail(a), Tail(b))
NumeralGreater(a, b) ==
    Len(a) > Len(b) \/ (Len(a) = Len(b) /\ DigitsGreater(a, b))

\* 2^32 - 1 and 2^63 - 1 as numerals
MaxUint32 == <<"4", "2", "9", "4", "9", "6", "7", "2", "9", "5">>
MaxInt64 == <<"9", "2", "2", "3", "3", "7", "2", "0", "3", "6", "8", "5", "4", "7", "7",
              "5", "8", "0", "7">>

\* strconv.ParseUint(s, 10, 32): digits only, no sign, at most 2^32 - 1
ParseUint(s) ==
    IF s = <<>> \/ \E i \in 1..Len(s) : ~IsDigit(s[i])
    THEN [ok |-> FALSE, val |-> 0]
    ELSE IF NumeralGreater(StripZeros(s), MaxUint32)
         THEN [ok |-> FALSE, val |-> 0]
         ELSE [ok |-> TRUE, val |-> DecimalValue(s, 0)]

\* 2^63 and 2^64 as numerals
MinInt64Magnitude == <<"9", "2", "2", "3", "3", "7", "2", "0", "3", "6", "8", "5", "4", "7",
                       "7", "5", "8", "0", "8">>
Two64 == <<"1", "8", "4", "4", "6", "7", "4", "4", "0", "7", "3", "7", "0", "9", "5", "5",
           "1", "6", "1", "6">>

\* strconv.Atoi(s): an optional sign, then digits, within the 64 bits of an int.
\* The value is a sign and a magnitude, the magnitude a numeral without
\* leading zeros
Atoi(s) ==
    LET signed == s # <<>> /\ Head(s) \in {"+", "-"}
        digits == IF signed THEN Tail(s) ELSE s
        parse(neg, mag) ==
            IF NumeralGreater(mag, IF neg THEN MinInt64Magnitude ELSE MaxInt64)
            THEN [ok |-> FALSE, neg |-> FALSE, mag |-> <<"0">>]
            ELSE [ok |-> TRUE, neg |-> neg /\ mag # <<"0">>, mag |-> mag]
    IN  IF digits = <<>> \/ \E i \in 1..Len(digits) : ~IsDigit(digits[i])
        THEN [ok |-> FALSE, neg |-> FALSE, mag |-> <<"0">>]
        ELSE parse(signed /\ Head(s) = "-", StripZeros(digits))

\* the numeral of a natural number
RECURSIVE Decimal(_)
Decimal(n) == IF n < 10 THEN <<Digits[n + 1]>> ELSE Append(Decimal(n \div 10), Digits[(n % 10) + 1])

\* arithmetic of an int beyond the numbers TLC computes with: digit values,
\* the least significant first
LittleEndian(a) == [i \in 1..Len(a) |-> DigitVal(a[Len(a) + 1 - i])]
BigEndian(d) == StripZeros([i \in 1..Len(d) |-> Digits[d[Len(d) + 1 - i] + 1]])

\* d times m, plus carry
RECURSIVE MulDigits(_, _, _)
MulDigits(d, m, carry) ==
    IF d = <<>>
    THEN IF carry = 0 THEN <<>> ELSE <<carry % 10>> \o MulDigits(<<>>, m, carry \div 10)
    ELSE <<(Head(d) * m + carry) % 10>>
         \o MulDigits(Tail(d), m, (Head(d) * m + carry) \div 10)

\* d minus e minus borrow, for d not less than e
RECURSIVE SubDigits(_, _, _)
SubDigits(d, e, borrow) ==
    IF d = <<>> THEN <<>>
    ELSE LET x == Head(d) - (IF e = <<>> THEN 0 ELSE Head(e)) - borrow
         IN  <<(x + 10) % 10>>
             \o SubDigits(Tail(d), IF e = <<>> THEN <<>> ELSE Tail(e), IF x < 0 THEN 1 ELSE 0)

\* the numeral of a times the natural number m; of a minus b, for a not less than b
MulNumeral(a, m) == BigEndian(MulDigits(LittleEndian(a), m, 0) \o <<0>>)
SubNumeral(a, b) == BigEndian(SubDigits(LittleEndian(a), LittleEndian(b), 0))

\* a modulo 2^64
RECURSIVE Mod64(_)
Mod64(a) == IF NumeralGreater(Two64, a) THEN a ELSE Mod64(SubNumeral(a, Two64))

\* the product of two ints as the machine computes it: modulo 2^64, the upper
\* half of the range standing for the negative numbers
MulInt64(a, m) ==
    LET signed(w) == IF NumeralGreater(w, MaxInt64)
                     THEN [neg |-> TRUE, mag |-> SubNumeral(Two64, w)]
                     ELSE [neg |-> FALSE, mag |-> w]
    IN  signed(Mod64(MulNumeral(a, m)))

-----------------------------------------------------------------------------
(* Token service: utils/jwt.go over github.com/golang-jwt/jwt/v5 *)

\* config.Load: JWT_SECRET of the environment, or this default when it is unset
DefaultJWTSecret == "default-secret-change-this"
Issuer == "task-management-api"

\* the signing methods of the family *jwt.SigningMethodHMAC
AllMethods == {"HS256", "HS384", "HS512", "RS256", "ES256", "none"}
HMACMethods == {"HS256", "HS384", "HS512"}

\* the MAC of a signing input under a key: equal exactly when both are equal
HMAC(alg, key, claims) == [alg |-> alg, key |-> key, msg |-> claims]

\* a compact token header.payload.signature
JWT(alg, claims, sig) == [k |-> "jwt", alg |-> alg, claims |-> claims, sig |-> sig]
\* a piece of text that holds no space and is no three-segment token
Word(w) == [k |-> "word", w |-> w]
\* the space character inside a header value
Space == [k |-> "sp"]

\* ExpiresAt of a token issued at t: time.Now().Add(24 * time.Hour)
ExpiresAtIssue(t) == t
ExpiresAt(t) == t + TokenTTL

\* GenerateToken(userID, email, secretKey), time.Now() reading t
GenerateToken(userID, email, secretKey, t) ==
    LET sign(claims) == JWT("HS256", claims, HMAC("HS256", secretKey, claims))
    IN  sign([user_id |-> userID, email |-> email,
              exp |-> ExpiresAt(t), iat |-> t, iss |-> Issuer])

NoClaims == [user_id |-> 0, email |-> <<>>, exp |-> 0, iat |-> 0, iss |-> ""]

\* the signature of a token is the MAC of its signing input under the key
AnySignature(tk, key) == TRUE
VerifySignature(tk, key) == tk.sig = HMAC(tk.alg, key, tk.claims)

\* the expiry of a token is checked against the clock: now.Before(exp)
IgnoreExpiresAt(exp, t) == TRUE
VerifyExpiresAt(exp, t) == t < exp

\* jwt.ParseWithClaims with the key function of ValidateToken: the token string
\* has three segments, the method is an HMAC one, the signature is the MAC of
\* the signing input under secretKey, and the expiry is after t
ParseWithClaims(tokenString, secretKey, t) ==
    LET parse(tk) ==
            IF tk.alg \notin HMACMethods THEN "unexpected signing method"
            ELSE IF ~VerifySignature(tk, secretKey) THEN "signature is invalid"
            ELSE IF ~VerifyExpiresAt(tk.claims.exp, t) THEN "token is expired"
            ELSE "ok"
    IN  IF Len(tokenString) # 1 \/ tokenString[1].k # "jwt" THEN "malformed"
        ELSE parse(tokenString[1])

\* ValidateToken(tokenString, secretKey), time.Now() reading t: the claims and
\* a nil error, or nil claims and the error of ParseWithClaims wrapped by
\* fmt.Errorf("failed to parse token: %w", err)
ValidateToken(tokenString, secretKey, t) ==
    LET validate(err) ==
            IF err # "ok"
            THEN [ok |-> FALSE, claims |-> NoClaims,
                  err |-> [msg |-> "failed to parse token", cause |-> err]]
            ELSE [ok |-> TRUE, claims |-> tokenString[1].claims,
                  err |-> [msg |-> "", cause |-> ""]]
    IN  validate(ParseWithClaims(tokenString, secretKey, t))

-----------------------------------------------------------------------------
(* Auth gate: middleware/auth.go *)

\* cfg.JWTSecret as config.Load returns it on every request
JWTSecret == DefaultJWTSecret

\* the zero UserContext
NoUser == [UserID |-> 0, Email |-> <<>>]

ErrorResponse(status, msg) == [status |-> status, body |-> [k |-> "error", error |-> msg]]

\* strings.Split(s, " "): cut at every space
RECURSIVE SplitAll(_)
SplitAll(s) ==
    LET i == Index(s, Space)
    IN  IF i = 0 THEN <<s>>
        ELSE <<SubSeq(s, 1, i - 1)>> \o SplitAll(SubSeq(s, i + 1, Len(s)))

\* strings.SplitN(s, " ", 2): cut at the first space, if there is one
SplitN2(s) ==
    LET i == Index(s, Space)
    IN  IF i = 0 THEN <<s>>
        ELSE <<SubSeq(s, 1, i - 1), SubSeq(s, i + 1, Len(s))>>

Bearer == <<Word("Bearer")>>

\* scheme != "Bearer", a comparison that minds the case
EqualFoldBearer(scheme) == scheme \in {Bearer, <<Word("bearer")>>, <<Word("BEARER")>>}
IsBearer(scheme) == scheme = Bearer

\* the UserContext built from the claims of a validated token
UserContextWithoutEmail(claims) == [UserID |-> claims.user_id, Email |-> <<>>]
UserContextOf(claims) == [UserID |-> claims.user_id, Email |-> claims.email]

\* the checks of AuthMiddleware before it calls next: whether the request
\* passes, the rejection written when it does not, the identity bound when it
\* does, and the credentials handed to ValidateToken
AuthMiddleware(authHeader, t) ==
    LET split(parts) ==
            LET validate(token, v) ==
                    IF ~v.ok
                    THEN [pass |-> FALSE, user |-> NoUser, checked |-> {token},
                          resp |-> ErrorResponse(StatusUnauthorized,
                                                 "Invalid or expired token")]
                    ELSE [pass |-> TRUE, checked |-> {token},
                          user |-> UserContextOf(v.claims),
                          resp |-> [status |-> 0, body |-> [k |-> "none"]]]
            IN  IF authHeader = <<>>
                THEN [pass |-> FALSE, user |-> NoUser, checked |-> {},
                      resp |-> ErrorResponse(StatusUnauthorized,
                                             "Authorization header required")]
                ELSE IF Len(parts) # 2
                THEN [pass |-> FALSE, user |-> NoUser, checked |-> {},
                      resp |-> ErrorResponse(StatusUnauthorized,
                                             "Invalid authorization header format")]
                ELSE IF ~IsBearer(parts[1])
                THEN [pass |-> FALSE, user |-> NoUser, checked |-> {},
                      resp |-> ErrorResponse(StatusUnauthorized,
                                             "Invalid authorization scheme. Use Bearer")]
                ELSE validate(parts[2], ValidateToken(parts[2], JWTSecret, t))
    IN  split(SplitN2(authHeader))

\* GetUserFromContext: the identity AuthMiddleware stored under UserContextKey
GetUserFromContext(gate) == [user |-> gate.user, ok |-> gate.pass]

-----------------------------------------------------------------------------
(* The tasks table: models/task.go, accessed through GORM *)

TaskStatusPending == "pending"
TaskStatusInProgress == "in_progress"
TaskStatusCompleted == "completed"
\* a list that also admits "done"
MoreStatuses == <<"pending", "in_progress", "completed", "done">>
validStatuses == <<TaskStatusPending, TaskStatusInProgress, TaskStatusCompleted>>

\* deleted_at of a row that is not soft-deleted
NULL == -1

NoTask == [id |-> 0, title |-> <<>>, description |-> <<>>, status |-> "",
           user_id |-> 0, created_at |-> 0, updated_at |-> 0, deleted_at |-> NULL]

\* the soft-delete scope GORM adds to every query of a model with a
\* gorm.DeletedAt field: deleted_at IS NULL
Unscoped(row) == TRUE
NotDeleted(row) == row.deleted_at = NULL

\* db.Where("id = ? AND user_id = ?", taskID, userID).First(&task)
MatchAnyOwner(row, taskID, userID) == row.id = taskID
MatchIDAndOwner(row, taskID, userID) == row.id = taskID /\ row.user_id = userID

FirstTaskUnscoped(rows, taskID, userID, dbErr) ==
    LET hit == {i \in 1..Len(rows) : MatchIDAndOwner(rows[i], taskID, userID)}
    IN  IF dbErr \/ hit = {}
        THEN [err |-> TRUE, task |-> NoTask]
        ELSE [err |-> FALSE, task |-> rows[CHOOSE i \in hit : TRUE]]
FirstTask(rows, taskID, userID, dbErr) ==
    LET hit == {i \in 1..Len(rows) :
                    MatchIDAndOwner(rows[i], taskID, userID) /\ NotDeleted(rows[i])}
    IN  IF dbErr \/ hit = {}
        THEN [err |-> TRUE, task |-> NoTask]
        ELSE [err |-> FALSE, task |-> rows[CHOOSE i \in hit : TRUE]]

\* an insert that gives every task to the first user
CreateTaskOfFirstUser_db(rows, task, t) ==
    Append(rows, [task EXCEPT !.id = Len(rows) + 1, !.created_at = t, !.updated_at = t,
                              !.deleted_at = NULL, !.user_id = 1])

\* db.Create(&task): the next id, both timestamps set to the current time
CreateTask_db(rows, task, t) ==
    Append(rows, [task EXCEPT !.id = Len(rows) + 1, !.created_at = t,
                              !.updated_at = t, !.deleted_at = NULL])

\* db.Save(&task): every column of the row with the task's id is written from
\* the struct, updated_at is set to the current time
SaveTaskAsLoaded_db(rows, task, t) ==
    [i \in 1..Len(rows) |-> IF rows[i].id = task.id THEN task ELSE rows[i]]
SaveTask_db(rows, task, t) ==
    [i \in 1..Len(rows) |->
        IF rows[i].id = task.id THEN [task EXCEPT !.updated_at = t] ELSE rows[i]]

\* db.Save(&task) of a struct loaded earlier, when the row may have been
\* soft-deleted since: Save updates every column WHERE id = ? AND deleted_at IS
\* NULL, which then matches no row; GORM releases that fall back to an upsert
\* of every column (upsert), which clears deleted_at, write the row, the
\* others leave it as it is; either way Save returns no error
SaveLoadedTask_db(rows, task, t, upsert) ==
    IF NotDeleted(rows[task.id]) \/ upsert THEN SaveTask_db(rows, task, t) ELSE rows

\* db.Delete(&task): UPDATE tasks SET deleted_at = now WHERE id = ? AND deleted_at IS NULL
DeleteTask_db(rows, task, t) ==
    [i \in 1..Len(rows) |->
        IF rows[i].id = task.id /\ NotDeleted(rows[i])
        THEN [rows[i] EXCEPT !.deleted_at = t] ELSE rows[i]]

\* the rows a query of the user's tasks selects: Where("user_id = ?", userID)
OwnedLive(rows, userID) ==
    {i \in 1..Len(rows) : rows[i].user_id = userID /\ NotDeleted(rows[i])}

\* db.Model(&models.Task{}).Where("user_id = ?", userID).Count(&total)
CountAllTasks(rows, userID) == Len(rows)
CountTasks(rows, userID) == Cardinality(OwnedLive(rows, userID))

\* the orders in which Order("created_at DESC") may return the rows of a user:
\* every arrangement of them with created_at non-increasing (the order among
\* rows of equal created_at is the database's choice)
Orderings(rows, userID) ==
    LET ids == OwnedLive(rows, userID)
        n == Cardinality(ids)
    IN  {o \in [1..n -> ids] :
            /\ \A i, j \in 1..n : i # j => o[i] # o[j]
            /\ \A i \in 1..n : \A j \in 1..n :
                 i < j => rows[o[i]].created_at >= rows[o[j]].created_at}

\* Limit(pageSize).Offset(offset) of an ordered result
LimitOffset(order, pageSize, offset) ==
    SubSeq(order, offset + 1,
           IF offset + pageSize < Len(order) THEN offset + pageSize ELSE Len(order))

-----------------------------------------------------------------------------
(* Request bodies: encoding/json *)

\* a member of a JSON object: not there, null, a number, or the string s
Absent == [t |-> "absent"]
JNull == [t |-> "null"]
JNum == [t |-> "num"]
JStr(s) == [t |-> "str", s |-> s]

\* a request body: text that is not JSON (or empty), a JSON value that is not
\* an object, or an object with these members
BadJSON == [k |-> "bad"]
JArray == [k |-> "array"]
JObject(title, description, status) ==
    [k |-> "obj", title |-> title, description |-> description, status |-> status]

\* whether json.Decoder.Decode into a struct of string fields succeeds: the
\* body is a JSON object and no string field is given a number
DecodeOK(body) ==
    /\ body.k = "obj"
    /\ body.title.t # "num" /\ body.description.t # "num" /\ body.status.t # "num"

\* a string field after Decode: the zero value unless the member is a string
StringField(m, zero) == IF m.t = "str" THEN m.s ELSE zero
\* a *string field after Decode: nil (the empty sequence) unless the member is a string
PointerField(m) == IF m.t = "str" THEN <<m.s>> ELSE <<>>

\* json.NewDecoder(r.Body).Decode(&req) for a CreateTaskRequest
DecodeCreateTaskRequest(body) ==
    IF ~DecodeOK(body)
    THEN [err |-> TRUE, Title |-> <<>>, Description |-> <<>>, Status |-> ""]
    ELSE [err |-> FALSE, Title |-> StringField(body.title, <<>>),
          Description |-> StringField(body.description, <<>>),
          Status |-> StringField(body.status, "")]

\* json.NewDecoder(r.Body).Decode(&req) for an UpdateTaskRequest
DecodeUpdateTaskRequest(body) ==
    IF ~DecodeOK(body)
    THEN [err |-> TRUE, Title |-> <<>>, Description |-> <<>>, Status |-> <<>>]
    ELSE [err |-> FALSE, Title |-> PointerField(body.title),
          Description |-> PointerField(body.description),
          Status |-> PointerField(body.status)]

-----------------------------------------------------------------------------
(* Task handlers: handlers/task.go *)

\* what a handler leaves behind: the response and the tasks table
Result(r, rows) == [resp |-> r, tasks |-> rows]

TaskResponse(task) ==
    [id |-> task.id, title |-> task.title, description |-> task.description,
     status |-> task.status, user_id |-> task.user_id,
     created_at |-> task.created_at, updated_at |-> task.updated_at]

TaskBody(status, task) == [status |-> status, body |-> [k |-> "task", task |-> TaskResponse(task)]]

AnyStatus(st) == TRUE
IsValidStatus(st) == \E i \in 1..Len(validStatuses) : validStatuses[i] = st

\* err == nil && p > 0 of a parsed parameter
Positive(p) == p.ok /\ ~p.neg /\ p.mag # <<"0">>

\* the page of GetTasks, a numeral: the parameter when it parses as a positive
\* integer
EffectivePage(pageStr) ==
    LET parsed(p) == IF pageStr # <<>> /\ Positive(p) THEN p.mag ELSE Decimal(DefaultPage)
    IN  parsed(Atoi(pageStr))

\* the page size of GetTasks: the parameter when it parses as a positive
\* integer, held to maxPageSize
UnboundedPageSize(pageSizeStr) ==
    LET parsed(ps) == IF pageSizeStr # <<>> /\ Positive(ps) /\ Len(ps.mag) < 9
                      THEN DecimalValue(ps.mag, 0) ELSE DefaultPageSize
    IN  parsed(Atoi(pageSizeStr))
EffectivePageSize(pageSizeStr) ==
    LET parsed(ps) == IF pageSizeStr # <<>> /\ Positive(ps)
                      THEN IF NumeralGreater(ps.mag, Decimal(maxPageSize))
                           THEN maxPageSize ELSE DecimalValue(ps.mag, 0)
                      ELSE DefaultPageSize
    IN  parsed(Atoi(pageSizeStr))

\* offset := (page - 1) * pageSize
Offset64(page, pageSize) == MulInt64(SubNumeral(page, <<"1">>), pageSize)

\* Offset(offset) on n rows: GORM writes the OFFSET clause for an offset
\* greater than zero only, and an offset past the last row skips them all
SkippedRows(offset, n) ==
    IF offset.neg THEN 0
    ELSE IF Len(offset.mag) > 9 THEN n
    ELSE IF DecimalValue(offset.mag, 0) > n THEN n ELSE DecimalValue(offset.mag, 0)

\* GetTasks: GET /api/tasks.  order is the order in which the database returns the
\* user's rows for Order("created_at DESC"); dbfail names the failing storage call
GetTasks(rows, gate, r, order) ==
    LET list(u, page, pageSize, total) ==
            LET offset == SkippedRows(Offset64(page, pageSize), Len(order))
                totalPages == (total + pageSize - 1) \div pageSize
                respond(found) ==
                    [status |-> StatusOK,
                     body |-> [k |-> "list",
                               tasks |-> [i \in 1..Len(found) |-> TaskResponse(rows[found[i]])],
                               page |-> page, page_size |-> pageSize, total |-> total,
                               total_pages |-> totalPages,
                               has_next |-> NumeralGreater(Decimal(totalPages), page),
                               has_prev |-> NumeralGreater(page, <<"1">>)]]
            IN  IF r.method # "GET"
                THEN Result(ErrorResponse(StatusMethodNotAllowed, "Method not allowed"), rows)
                ELSE IF ~u.ok
                THEN Result(ErrorResponse(StatusUnauthorized, "User not found in context"), rows)
                ELSE IF r.dbfail \in {1, 2}
                THEN Result(ErrorResponse(StatusInternalServerError, "Failed to fetch tasks"),
                            rows)
                ELSE Result(respond(LimitOffset(order, pageSize, offset)), rows)
    IN  list(GetUserFromContext(gate), EffectivePage(r.page), EffectivePageSize(r.page_size),
             CountTasks(rows, gate.user.UserID))

\* GetTask: GET /api/tasks/{id}
GetTask(rows, gate, r) ==
    LET get(u, taskID) ==
            LET lookup(found) ==
                    IF found.err
                    THEN Result(ErrorResponse(StatusNotFound, "Task not found"), rows)
                    ELSE Result(TaskBody(StatusOK, found.task), rows)
            IN  IF r.method # "GET"
                THEN Result(ErrorResponse(StatusMethodNotAllowed, "Method not allowed"), rows)
                ELSE IF ~u.ok
                THEN Result(ErrorResponse(StatusUnauthorized, "User not found in context"), rows)
                ELSE IF r.path = <<>>
                THEN Result(ErrorResponse(StatusBadRequest, "Task ID is required"), rows)
                ELSE IF ~taskID.ok
                THEN Result(ErrorResponse(StatusBadRequest, "Invalid task ID"), rows)
                ELSE lookup(FirstTask(rows, taskID.val, u.user.UserID, r.dbfail = 1))
    IN  get(GetUserFromContext(gate), ParseUint(r.path))

\* CreateTask: POST /api/tasks
CreateTask(rows, gate, r, t) ==
    LET create(u, request) ==
            LET status == IF request.Status # "" THEN request.Status ELSE TaskStatusPending
                task == [NoTask EXCEPT !.title = request.Title,
                                       !.description = request.Description,
                                       !.status = status, !.user_id = u.user.UserID]
                respond(saved) == Result(TaskBody(StatusCreated, saved[Len(saved)]), saved)
            IN  IF r.method # "POST"
                THEN Result(ErrorResponse(StatusMethodNotAllowed, "Method not allowed"), rows)
                ELSE IF ~u.ok
                THEN Result(ErrorResponse(StatusUnauthorized, "User not found in context"), rows)
                ELSE IF request.err
                THEN Result(ErrorResponse(StatusBadRequest, "Invalid JSON"), rows)
                ELSE IF TrimSpace(request.Title) = <<>>
                THEN Result(ErrorResponse(StatusBadRequest, "Title is required"), rows)
                ELSE IF request.Status # "" /\ ~IsValidStatus(request.Status)
                THEN Result(ErrorResponse(StatusBadRequest,
                                "Invalid status. Use: pending, in_progress, or completed"), rows)
                ELSE IF r.dbfail = 1
                THEN Result(ErrorResponse(StatusInternalServerError, "Failed to create task"),
                            rows)
                ELSE respond(CreateTask_db(rows, task, t))
    IN  create(GetUserFromContext(gate), DecodeCreateTaskRequest(r.body))

\* UpdateTask: PUT /api/tasks/{id}
UpdateTask(rows, gate, r, t) ==
    LET update(u, taskID, request) ==
            LET respond(task, saved) == Result(TaskBody(StatusOK, saved[task.id]), saved)
                save(task) == respond(task, SaveTask_db(rows, task, t))
                lookup(found) ==
                    IF found.err
                    THEN Result(ErrorResponse(StatusNotFound, "Task not found"), rows)
                    ELSE IF request.Title # <<>> /\ TrimSpace(request.Title[1]) = <<>>
                    THEN Result(ErrorResponse(StatusBadRequest, "Title cannot be empty"), rows)
                    ELSE IF request.Status # <<>> /\ ~IsValidStatus(request.Status[1])
                    THEN Result(ErrorResponse(StatusBadRequest,
                                    "Invalid status. Use: pending, in_progress, or completed"),
                                rows)
                    ELSE IF r.dbfail = 2
                    THEN Result(ErrorResponse(StatusInternalServerError,
                                              "Failed to update task"), rows)
                    ELSE save([found.task EXCEPT
                                 !.title = IF request.Title # <<>> THEN request.Title[1] ELSE @,
                                 !.description = IF request.Description # <<>>
                                                 THEN request.Description[1] ELSE @,
                                 !.status = IF request.Status # <<>>
                                            THEN request.Status[1] ELSE @])
            IN  IF r.method # "PUT"
                THEN Result(ErrorResponse(StatusMethodNotAllowed, "Method not allowed"), rows)
                ELSE IF ~u.ok
                THEN Result(ErrorResponse(StatusUnauthorized, "User not found in context"), rows)
                ELSE IF r.path = <<>>
                THEN Result(ErrorResponse(StatusBadRequest, "Task ID is required"), rows)
                ELSE IF ~taskID.ok
                THEN Result(ErrorResponse(StatusBadRequest, "Invalid task ID"), rows)
                ELSE IF request.err
                THEN Result(ErrorResponse(StatusBadRequest, "Invalid JSON"), rows)
                ELSE lookup(FirstTask(rows, taskID.val, u.user.UserID, r.dbfail = 1))
    IN  update(GetUserFromContext(gate), ParseUint(r.path), DecodeUpdateTaskRequest(r.body))

\* DeleteTask: DELETE /api/tasks/{id}
DeleteTask(rows, gate, r, t) ==
    LET delete(u, taskID) ==
            LET lookup(found) ==
                    IF found.err
                    THEN Result(ErrorResponse(StatusNotFound, "Task not found"), rows)
                    ELSE IF r.dbfail = 2
                    THEN Result(ErrorResponse(StatusInternalServerError,
                                              "Failed to delete task"), rows)
                    ELSE Result([status |-> StatusNoContent, body |-> [k |-> "empty"]],
                                DeleteTask_db(rows, found.task, t))
            IN  IF r.method # "DELETE"
                THEN Result(ErrorResponse(StatusMethodNotAllowed, "Method not allowed"), rows)
                ELSE IF ~u.ok
                THEN Result(ErrorResponse(StatusUnauthorized, "User not found in context"), rows)
                ELSE IF r.path = <<>>
                THEN Result(ErrorResponse(StatusBadRequest, "Task ID is required"), rows)
                ELSE IF ~taskID.ok
                THEN Result(ErrorResponse(StatusBadRequest, "Invalid task ID"), rows)
                ELSE lookup(FirstTask(rows, taskID.val, u.user.UserID, r.dbfail = 1))
    IN  delete(GetUserFromContext(gate), ParseUint(r.path))

-----------------------------------------------------------------------------
(* Router: main.go *)

\* the handler registered for "/api/tasks" (list, create) and the one for
\* "/api/tasks/" (one task), each switching on the method
TasksRoute(rows, gate, r, order, t) ==
    CASE r.method = "GET" -> GetTasks(rows, gate, r, order)
      [] r.method = "POST" -> CreateTask(rows, gate, r, t)
      [] OTHER -> Result(ErrorResponse(StatusMethodNotAllowed, "Method not allowed"), rows)

TaskRoute(rows, gate, r, t) ==
    CASE r.method = "GET" -> GetTask(rows, gate, r)
      [] r.method = "PUT" -> UpdateTask(rows, gate, r, t)
      [] r.method = "DELETE" -> DeleteTask(rows, gate, r, t)
      [] OTHER -> Result(ErrorResponse(StatusMethodNotAllowed, "Method not allowed"), rows)

\* the handler the middleware wraps, by the pattern the mux matched
Wrapped(rows, gate, r, order, t) ==
    IF r.route = "/api/tasks" THEN TasksRoute(rows, gate, r, order, t)
    ELSE TaskRoute(rows, gate, r, t)

\* one protected request from the first line of the middleware to the response
ServeProtected(rows, r, order, t) ==
    LET serve(gate) ==
            LET next(out) == [resp |-> out.resp, tasks |-> out.tasks, ctx |-> gate.user,
                              calls |-> 1, checked |-> gate.checked]
            IN  IF gate.pass
                THEN next(Wrapped(rows, gate, r, order, t))
                ELSE [resp |-> gate.resp, tasks |-> rows, ctx |-> NoUser,
                      calls |-> 0, checked |-> gate.checked]
    IN  serve(AuthMiddleware(r.header, t))

-----------------------------------------------------------------------------
(* Users and the auth handlers: handlers/auth.go, utils/password.go *)

\* a hash that does not depend on the password
HashOfNothing(password) == [k |-> "bcrypt", of |-> <<>>]

\* utils.HashPassword: a bcrypt hash of the password
HashPassword(password) == [k |-> "bcrypt", of |-> password]
\* a comparison that accepts every password
AnyPassword(password, hash) == TRUE
\* utils.CheckPassword: the hash is a bcrypt hash of this password
CheckPassword(password, hash) == hash.k = "bcrypt" /\ hash.of = password

NoUserRow == [id |-> 0, email |-> <<>>, password |-> [k |-> "none", of |-> <<>>],
              created_at |-> 0]

\* a lookup that finds no row
NoUserFound(rows, email, dbErr) == [err |-> TRUE, user |-> NoUserRow]

\* db.Where("email = ?", email).First(&user)
FirstUser(rows, email, dbErr) ==
    LET hit == {i \in 1..Len(rows) : rows[i].email = email}
    IN  IF dbErr \/ hit = {}
        THEN [err |-> TRUE, user |-> NoUserRow]
        ELSE [err |-> FALSE, user |-> rows[CHOOSE i \in hit : \A j \in hit : i <= j]]

\* the unique index of the users table on email: an insert of an email that is
\* already in the table fails
UniqueEmailViolated(rows, email) == \E i \in 1..Len(rows) : rows[i].email = email

\* db.Create(&user): the next id, unless storage fails
CreateUser_db(rows, email, hash, t, dbErr) ==
    IF dbErr \/ UniqueEmailViolated(rows, email)
    THEN [err |-> TRUE, rows |-> rows, user |-> NoUserRow]
    ELSE LET user == [id |-> Len(rows) + 1, email |-> email, password |-> hash,
                      created_at |-> t]
         IN  [err |-> FALSE, rows |-> Append(rows, user), user |-> user]

\* a RegisterRequest or LoginRequest body
AuthBody(email, password) == [k |-> "obj", email |-> email, password |-> password]
DecodeAuthRequest(body) ==
    IF body.k # "obj" \/ body.email.t = "num" \/ body.password.t = "num"
    THEN [err |-> TRUE, Email |-> <<>>, Password |-> <<>>]
    ELSE [err |-> FALSE, Email |-> StringField(body.email, <<>>),
          Password |-> StringField(body.password, <<>>)]

\* AuthResponse: the token and the user, whose password is never serialised
AuthResponse(status, token, user) ==
    [status |-> status,
     body |-> [k |-> "auth", token |-> token,
               user |-> [id |-> user.id, email |-> user.email,
                         created_at |-> user.created_at]]]

AuthResult(r, rows) == [resp |-> r, users |-> rows]

\* Register up to and including the check that no user has the email: the
\* response when the handler returns there, or the decoded request when it
\* goes on
RegisterCheck(rows, r) ==
    LET return(response) == [done |-> TRUE, resp |-> response]
        register(request) ==
            LET check(existing) ==
                    IF ~existing.err
                    THEN return(ErrorResponse(StatusConflict,
                                              "User with this email already exists"))
                    ELSE [done |-> FALSE, request |-> request]
            IN  IF r.method # "POST"
                THEN return(ErrorResponse(StatusMethodNotAllowed, "Method not allowed"))
                ELSE IF request.err
                THEN return(ErrorResponse(StatusBadRequest, "Invalid JSON"))
                ELSE IF TrimSpace(request.Email) = <<>>
                THEN return(ErrorResponse(StatusBadRequest, "Email is required"))
                ELSE IF TrimSpace(request.Password) = <<>>
                THEN return(ErrorResponse(StatusBadRequest, "Password is required"))
                ELSE check(FirstUser(rows, request.Email, r.dbfail = 1))
    IN  register(DecodeAuthRequest(r.body))

\* Register from the hashing of the password on: the insert and the response
RegisterInsert(rows, request, r, t) ==
    LET create(created) ==
            IF created.err
            THEN AuthResult(ErrorResponse(StatusInternalServerError,
                                          "Failed to create user"), rows)
            ELSE AuthResult(AuthResponse(StatusCreated,
                                <<GenerateToken(created.user.id, created.user.email,
                                                JWTSecret, t)>>,
                                created.user),
                            created.rows)
    IN  create(CreateUser_db(rows, request.Email, HashPassword(request.Password), t,
                             r.dbfail = 2))

\* Register: POST /api/auth/register, served with no other request in between
Register(rows, r, t) ==
    LET register(lookup) ==
            IF lookup.done THEN AuthResult(lookup.resp, rows)
            ELSE RegisterInsert(rows, lookup.request, r, t)
    IN  register(RegisterCheck(rows, r))

\* Login: POST /api/auth/login
Login(rows, r, t) ==
    LET login(request) ==
            LET lookup(found) ==
                    IF found.err
                    THEN AuthResult(ErrorResponse(StatusUnauthorized,
                                                  "Invalid email or password"), rows)
                    ELSE IF ~CheckPassword(request.Password, found.user.password)
                    THEN AuthResult(ErrorResponse(StatusUnauthorized,
                                                  "Invalid email or password"), rows)
                    ELSE AuthResult(AuthResponse(StatusOK,
                                        <<GenerateToken(found.user.id, found.user.email,
                                                        JWTSecret, t)>>,
                                        found.user),
                                    rows)
            IN  IF r.method # "POST"
                THEN AuthResult(ErrorResponse(StatusMethodNotAllowed, "Method not allowed"),
                                rows)
                ELSE IF request.err
                THEN AuthResult(ErrorResponse(StatusBadRequest, "Invalid JSON"), rows)
                ELSE IF TrimSpace(request.Email) = <<>> \/ TrimSpace(request.Password) = <<>>
                THEN AuthResult(ErrorResponse(StatusBadRequest,
                                              "Email and password are required"), rows)
                ELSE lookup(FirstUser(rows, request.Email, r.dbfail = 1))
    IN  login(DecodeAuthRequest(r.body))

-----------------------------------------------------------------------------
(* The state after start-up: database.Initialize seeds a sample user and tasks *)

SeedUsers ==
    << [id |-> 1, email |-> <<"test@example.com">>,
        password |-> [k |-> "text", of |-> <<"hashedpassword123">>], created_at |-> 0] >>

SeedTask(i, title, description, status) ==
    [id |-> i, title |-> title, description |-> description, status |-> status,
     user_id |-> 1, created_at |-> 0, updated_at |-> 0, deleted_at |-> NULL]

SeedTasks ==
    << SeedTask(1, <<"Complete", SP, "project", SP, "setup">>,
                <<"Set up the basic project structure and database">>, TaskStatusCompleted),
       SeedTask(2, <<"Implement", SP, "authentication">>,
                <<"Add user registration and login functionality">>, TaskStatusInProgress),
       SeedTask(3, <<"Create", SP, "API", SP, "endpoints">>,
                <<"Build REST API endpoints for task management">>, TaskStatusPending) >>

\* a request as the server receives it; at is the clock when it is served
Request(route, method, path, header, body, page, pageSize, dbfail, t) ==
    [route |-> route, method |-> method, path |-> path, header |-> header,
     body |-> body, page |-> page, page_size |-> pageSize, dbfail |-> dbfail, at |-> t]

NoRequest == Request("", "", <<>>, <<>>, BadJSON, <<>>, <<>>, 0, 0)
NoResponse == [status |-> 0, body |-> [k |-> "none"]]
NoToken == [k |-> "none"]

\* the handler goroutines that serve register requests at the same time, none
\* of them in Register
RegisterCalls == {1, 2}
Idle == [pc |-> "idle"]
NoRegistrations == [p \in RegisterCalls |-> Idle]

\* the handler goroutines that serve requests of one task owner at the same
\* time, none of them in a handler
TaskCalls == {1, 2}
NoCalls == [p \in TaskCalls |-> Idle]

Init ==
    /\ now = 0
    /\ users = SeedUsers
    /\ tasks = SeedTasks
    /\ req = NoRequest
    /\ resp = NoResponse
    /\ ctx = NoUser
    /\ calls = 0
    /\ checked = {}
    /\ issuedTok = NoToken
    /\ validated = NoToken
    /\ regs = NoRegistrations
    /\ ops = NoCalls

-----------------------------------------------------------------------------
(* Clients and their requests *)

Emails == {<<"a@x">>, <<"b@x">>}
Password == <<"p">>

\* the tokens clients can hold: a user registered at created_at can have logged
\* in at any time since (Login keeps no record of it); the seeded user's
\* password is no bcrypt hash, so no login as that user succeeds
TokensOf(i) ==
    IF users[i].password.k = "bcrypt"
    THEN {GenerateToken(users[i].id, users[i].email, JWTSecret, t) :
            t \in users[i].created_at..now}
    ELSE {}
HeldTokens == UNION {TokensOf(i) : i \in 1..Len(users)}

BearerHeader(tok) == <<Word("Bearer"), Space, tok>>

\* the headers of clients that present a token they hold, or none
ClientHeaders == {<<>>} \cup {BearerHeader(tok) : tok \in HeldTokens}

\* bodies of register and login requests
AuthBodies ==
    {AuthBody(JStr(e), JStr(Password)) : e \in Emails \cup {<<"test@example.com">>}}
    \cup {AuthBody(JStr(<<"a@x">>), JStr(<<"q">>)), AuthBody(JStr(<<SP>>), JStr(Password)),
          AuthBody(JStr(<<"a@x">>), Absent), BadJSON}

\* bodies of create requests
CreateBodies ==
    {JObject(JStr(<<"a">>), Absent, Absent),
     JObject(JStr(<<SP>>), Absent, Absent),
     JObject(JStr(<<"a">>), Absent, JStr("done")),
     BadJSON}

\* bodies of update requests that Decode accepts
DecodableUpdateBodies ==
    {JObject(Absent, Absent, Absent),
     JObject(JStr(<<"b">>), JStr(<<"d">>), JStr(TaskStatusCompleted)),
     JObject(JStr(<<SP>>), JStr(<<"d">>), JNull),
     JObject(JStr(<<"b">>), Absent, JStr("done"))}
\* JSON that Decode rejects: a number for a string member, a value that is no object
MistypedBodies == {JObject(JNum, Absent, Absent), JArray}
UpdateBodies == DecodableUpdateBodies \cup MistypedBodies \cup {BadJSON}

\* the storage call of a request that fails: none, the first, the second
DBFails == 0..2

\* the decimal numeral of a task id (ids of the model have one digit)
Numeral(n) == <<Digits[n + 1]>>

\* the paths below /api/tasks/ that name a task: a seeded one, the tasks
\* created through the API and the next id
IDPaths(max) ==
    {<<"1">>} \cup {Numeral(i) : i \in (Len(SeedTasks) + 1)..(Len(SeedTasks) + max + 1)}
\* the paths that name none: the empty one, and one that is no number
NoIDPaths == {<<>>, <<"x">>}

\* page and page_size parameters of list requests
PageParams == {<<>>, <<"0">>, <<"2">>, <<"x">>}
PageSizeParams == {<<>>, <<"1">>, <<"5", "0", "0">>}

ListRequest(h, p, ps, f) ==
    Request("/api/tasks", "GET", <<>>, h, BadJSON, p, ps, f, now)
CreateRequest(m, h, b, f) ==
    Request("/api/tasks", m, <<>>, h, b, <<>>, <<>>, f, now)
GetRequest(h, p, f) ==
    Request("/api/tasks/", "GET", p, h, BadJSON, <<>>, <<>>, f, now)
UpdateRequest(m, h, p, b, f) ==
    Request("/api/tasks/", m, p, h, b, <<>>, <<>>, f, now)
DeleteRequest(h, p, f) ==
    Request("/api/tasks/", "DELETE", p, h, BadJSON, <<>>, <<>>, f, now)

\* the orders the database may return for the list request r
OrdersFor(rows, r, t) ==
    LET gate == AuthMiddleware(r.header, t)
    IN  IF gate.pass /\ r.route = "/api/tasks" /\ r.method = "GET"
        THEN Orderings(rows, gate.user.UserID) ELSE {<<>>}

-----------------------------------------------------------------------------
(* Actions *)

\* time passes
Tick ==
    /\ now < MaxTime
    /\ now' = now + 1
    /\ UNCHANGED <<users, tasks, req, resp, ctx, calls, checked, issuedTok, validated, regs, ops>>

\* what the client of the request sees; in the store specification, where
\* observed is FALSE, responses are computed from the state and not kept
Observe(observed, r, response, user, n, creds) ==
    IF observed
    THEN /\ req' = r
         /\ resp' = response
         /\ ctx' = user
         /\ calls' = n
         /\ checked' = creds
    ELSE UNCHANGED <<req, resp, ctx, calls, checked>>

\* a request to a public auth route is served
ServeAuth(observed, r, out) ==
    /\ users' = out.users
    /\ Observe(observed, r, out.resp, NoUser, 0, {})
    /\ UNCHANGED <<now, tasks, issuedTok, validated, regs, ops>>

\* a request to a protected route is served: the middleware, then the handler;
\* the tasks table holds at most max rows beyond the seeded ones
ServeTask(observed, r, max) ==
    \E order \in OrdersFor(tasks, r, now) :
        \E out \in {ServeProtected(tasks, r, order, now)} :
            /\ Len(out.tasks) <= Len(SeedTasks) + max
            /\ tasks' = out.tasks
            /\ Observe(observed, r, out.resp, out.ctx, out.calls, out.checked)
            /\ UNCHANGED <<now, users, issuedTok, validated, regs, ops>>

(* The store specification: clients register, log in and work on tasks *)

RegisterRequest ==
    \E b \in AuthBodies, f \in DBFails :
        \E r \in {Request("/api/auth/register", "POST", <<>>, <<>>, b, <<>>, <<>>, f, now)} :
            ServeAuth(FALSE, r, Register(users, r, now))

LoginRequest ==
    \E b \in AuthBodies, m \in {"POST", "GET"} :
        \E r \in {Request("/api/auth/login", m, <<>>, <<>>, b, <<>>, <<>>, 0, now)} :
            ServeAuth(FALSE, r, Login(users, r, now))

ListTasksRequest ==
    \E h \in ClientHeaders, p \in PageParams, ps \in PageSizeParams :
        ServeTask(FALSE, ListRequest(h, p, ps, 0), MaxTasks)

CreateTaskRequest ==
    \E h \in ClientHeaders, b \in CreateBodies, f \in 0..1 :
        ServeTask(FALSE, CreateRequest("POST", h, b, f), MaxTasks)

GetTaskRequest ==
    \E h \in ClientHeaders, p \in IDPaths(MaxTasks) \cup NoIDPaths :
        ServeTask(FALSE, GetRequest(h, p, 0), MaxTasks)

UpdateTaskRequest ==
    \E h \in ClientHeaders, p \in IDPaths(MaxTasks), b \in UpdateBodies :
        ServeTask(FALSE, UpdateRequest("PUT", h, p, b, 0), MaxTasks)

DeleteTaskRequest ==
    \E h \in ClientHeaders, p \in IDPaths(MaxTasks), f \in DBFails :
        ServeTask(FALSE, DeleteRequest(h, p, f), MaxTasks)

\* a request with a method the route has no handler for
OtherMethodRequest ==
    \E h \in ClientHeaders :
        \/ ServeTask(FALSE, CreateRequest("PATCH", h, BadJSON, 0), MaxTasks)
        \/ ServeTask(FALSE, UpdateRequest("POST", h, <<"1">>, BadJSON, 0), MaxTasks)

Next ==
    \/ RegisterRequest
    \/ LoginRequest
    \/ ListTasksRequest
    \/ CreateTaskRequest
    \/ GetTaskRequest
    \/ UpdateTaskRequest
    \/ DeleteTaskRequest
    \/ OtherMethodRequest

Spec == Init /\ [][Next]_vars

-----------------------------------------------------------------------------
(* Properties of the store specification.  A response is computed from the
   state a request finds, so a property of all requests is an invariant that
   serves each request of interest on the current state. *)

\* the headers with which user i of the users table is authenticated now
Authenticated(i) ==
    {BearerHeader(tok) : tok \in {k \in TokensOf(i) : now < k.claims.exp}}

TaskNotFound == ErrorResponse(StatusNotFound, "Task not found")

\* the requests on the task at path p under header h: GET, PUT with one of the
\* bodies, DELETE, with each storage call failing or none
OnTask(h, p, bodies) ==
    {GetRequest(h, p, f) : f \in DBFails}
    \cup {UpdateRequest("PUT", h, p, b, f) : b \in bodies, f \in DBFails}
    \cup {DeleteRequest(h, p, f) : f \in DBFails}

\* title, description, status, owner and deleted-at of two rows agree
SameTask(a, b) ==
    /\ a.id = b.id /\ a.title = b.title /\ a.description = b.description
    /\ a.status = b.status /\ a.user_id = b.user_id /\ a.deleted_at = b.deleted_at

\* the bodies that are well-formed JSON
WellFormedBodies == DecodableUpdateBodies \cup MistypedBodies

\* every request on a task by a user who does not own it, with a PUT body
\* among bodies, is answered 404 "Task not found" and leaves the task as it was
Isolated(bodies) ==
    \A i \in 1..Len(tasks), b \in 1..Len(users) :
        users[b].id # tasks[i].user_id =>
            \A h \in Authenticated(b) :
                \A r \in OnTask(h, Numeral(tasks[i].id), bodies) :
                    \A out \in {ServeProtected(tasks, r, <<>>, now)} :
                        /\ out.resp = TaskNotFound
                        /\ Len(out.tasks) = Len(tasks)
                        /\ SameTask(out.tasks[i], tasks[i])

\* C1 (as amended): for distinct users A and B and a task T of A, in every
\* reachable state B's GET, B's PUT with a body that decodes into the update
\* request, and B's DELETE on /api/tasks/{T.id} are answered 404 "Task not
\* found" and leave T's title, description, status, owner and deleted-at unchanged
C1_OwnershipIsolation == Isolated(DecodableUpdateBodies)

\* C1 (as stated): the same for every PUT whose body is well-formed JSON
C1_AsStated == Isolated(WellFormedBodies)

\* a task made through the API is live, a second user is authenticated, and
\* that user's GET of the task is answered 404 while the owner's is answered 200
C1_Witness ==
    \E i \in 1..Len(tasks), a, b \in 1..Len(users) :
        /\ tasks[i].id > Len(SeedTasks) /\ tasks[i].deleted_at = NULL
        /\ users[a].id = tasks[i].user_id /\ a # b
        /\ \E h \in Authenticated(b) :
              ServeProtected(tasks, GetRequest(h, Numeral(tasks[i].id), 0), <<>>, now).resp
                  = TaskNotFound
        /\ \E h \in Authenticated(a) :
              ServeProtected(tasks, GetRequest(h, Numeral(tasks[i].id), 0), <<>>, now)
                  .resp.status = StatusOK

\* the tasks table without the rows of this id
Without(rows, id) ==
    LET other(row) == row.id # id
    IN  SelectSeq(rows, other)

\* id names no live task of user b
NotMine(b, id) ==
    \A i \in 1..Len(tasks) :
        ~(tasks[i].id = id /\ tasks[i].user_id = users[b].id /\ tasks[i].deleted_at = NULL)

\* C2: a GET, PUT (any body) or DELETE on /api/tasks/{id} by user B is answered
\* the same, status and body, when id names a task of another user, when it
\* names a soft-deleted task and when no task has that id: each answer equals
\* the answer of the store without that id
C2_NonEnumeration ==
    \A b \in 1..Len(users), id \in 1..(Len(tasks) + 1) :
        NotMine(b, id) =>
            \A h \in Authenticated(b) :
                \A r \in OnTask(h, Numeral(id), UpdateBodies) :
                    ServeProtected(tasks, r, <<>>, now).resp
                        = ServeProtected(Without(tasks, id), r, <<>>, now).resp

\* an authenticated user for whom one id names a live task of another user
\* made through the API and another id names a soft-deleted task of their own
C2_Witness ==
    \E b \in 1..Len(users), i, j \in 1..Len(tasks) :
        /\ Authenticated(b) # {}
        /\ tasks[i].user_id # users[b].id /\ tasks[i].deleted_at = NULL
        /\ tasks[i].id > Len(SeedTasks)
        /\ tasks[j].user_id = users[b].id /\ tasks[j].deleted_at # NULL
        /\ \A h \in Authenticated(b) :
              ServeProtected(tasks, DeleteRequest(h, Numeral(tasks[i].id), 0), <<>>, now).resp
                  = TaskNotFound

\* the rows of the user with this id that are not soft-deleted
LiveRowsOf(userID) ==
    {i \in 1..Len(tasks) : tasks[i].user_id = userID /\ tasks[i].deleted_at = NULL}

\* the answers to the list requests of header h, for every page and page size
\* and every order the database may return
ListAnswers(h, userID) ==
    {ServeProtected(tasks, ListRequest(h, p, ps, 0), order, now).resp :
        p \in PageParams, ps \in PageSizeParams, order \in Orderings(tasks, userID)}

\* C4: every GET /api/tasks response for an authenticated user U holds only
\* tasks that U owns and that are not soft-deleted, and its total is the number
\* of non-deleted tasks of U in the store, whatever page and page_size
C4_ListScoping ==
    \A u \in 1..Len(users) : \A h \in Authenticated(u) :
        \A answer \in ListAnswers(h, users[u].id) :
            /\ answer.status = StatusOK
            /\ \A n \in 1..Len(answer.body.tasks) :
                  /\ answer.body.tasks[n].user_id = users[u].id
                  /\ \E i \in LiveRowsOf(users[u].id) :
                        tasks[i].id = answer.body.tasks[n].id
            /\ answer.body.total = Cardinality(LiveRowsOf(users[u].id))

\* an authenticated user with a live task and a soft-deleted one, beside the
\* tasks of another user, whose list with page_size 1 holds one task of two
C4_Witness ==
    \E u \in 1..Len(users) : \E h \in Authenticated(u) :
        /\ \E i, j \in 1..Len(tasks) :
              /\ tasks[i].user_id = users[u].id /\ tasks[i].deleted_at # NULL
              /\ tasks[j].user_id # users[u].id /\ tasks[j].deleted_at = NULL
        /\ \E answer \in ListAnswers(h, users[u].id) :
              Len(answer.body.tasks) = 1 /\ answer.body.total = 1

\* the owner's requests on a soft-deleted task, with a PUT body among bodies,
\* are answered 404, and no list response of the owner holds or counts the task
Gone(bodies) ==
    \A i \in 1..Len(tasks), u \in 1..Len(users) :
        (tasks[i].deleted_at # NULL /\ users[u].id = tasks[i].user_id) =>
            \A h \in Authenticated(u) :
                /\ \A r \in OnTask(h, Numeral(tasks[i].id), bodies) :
                      ServeProtected(tasks, r, <<>>, now).resp = TaskNotFound
                /\ \A answer \in ListAnswers(h, users[u].id) :
                      /\ \A n \in 1..Len(answer.body.tasks) :
                            answer.body.tasks[n].id # tasks[i].id
                      /\ answer.body.total = Cardinality(LiveRowsOf(users[u].id))

\* a soft-deleted row stays in the table as it is
Kept ==
    \A i \in 1..Len(tasks) :
        tasks[i].deleted_at # NULL => Len(tasks') >= i /\ tasks'[i] = tasks[i]

\* C5 (as amended): once the owner's DELETE of a task has returned 204, in
\* every later state the owner's GET, DELETE and PUT with a body that decodes
\* of that id are answered 404, no list response holds the task or counts it in
\* total, and the row stays in storage with deleted-at set
C5_SoftDeleteFinal == [](Gone(DecodableUpdateBodies)) /\ [][Kept]_vars

\* C5 (as stated): the same for every PUT of that id by the owner
C5_AsStated == [](Gone(UpdateBodies)) /\ [][Kept]_vars

\* the owner has soft-deleted a task made through the API and still has a live one
C5_Witness ==
    \E i, j \in 1..Len(tasks), u \in 1..Len(users) :
        /\ tasks[i].deleted_at # NULL /\ tasks[i].id > Len(SeedTasks)
        /\ users[u].id = tasks[i].user_id /\ Authenticated(u) # {}
        /\ tasks[j].user_id = users[u].id /\ tasks[j].deleted_at = NULL


-----------------------------------------------------------------------------
(* The gate specification: one client registers, time passes, and protected
   requests arrive under every kind of Authorization header; what each
   request met is kept in req, resp, ctx, calls and checked.  Login changes no
   state: the tokens of the logins since registration are among HeldTokens *)

WrongSecret == "wrong-secret-key"

\* claims that name the seeded user and expire TokenTTL from now
ForgedClaims ==
    [user_id |-> 1, email |-> <<"test@example.com">>,
     exp |-> now + TokenTTL, iat |-> now, iss |-> Issuer]

\* the tokens the register responses returned
RegistrationTokens == {tok \in HeldTokens : \E i \in 1..Len(users) :
                          tok.claims.user_id = users[i].id
                          /\ tok.claims.iat = users[i].created_at}

\* tokens the server did not issue: signed under another secret or the empty
\* one, declaring no algorithm or one outside the HMAC family, or a token of a
\* registration whose claims were rewritten under the old signature
ForgedTokens ==
    {GenerateToken(1, <<"test@example.com">>, WrongSecret, now),
     GenerateToken(1, <<"test@example.com">>, "", now),
     JWT("none", ForgedClaims, HMAC("none", "", ForgedClaims)),
     JWT("RS256", ForgedClaims, HMAC("RS256", JWTSecret, ForgedClaims))}
    \cup {[tok EXCEPT !.claims.user_id = 1] : tok \in RegistrationTokens}

ThreeTokens == <<Word("Bearer"), Space, Word("a"), Space, Word("b")>>

GateHeaders ==
    {<<>>, <<Word("Bearer")>>, <<Word("Bearer"), Space>>, BearerHeader(Word("garbage")),
     <<Word("Basic"), Space, Word("dXNlcjpwYXNz")>>, ThreeTokens}
    \cup {BearerHeader(tok) : tok \in HeldTokens \cup ForgedTokens}
    \cup UNION {{<<Word("bearer"), Space, tok>>,
                 <<Word("Bearer"), Space, tok, Space, Word("x")>>,
                 <<Word("Bearer"), Space, Space, tok>>} : tok \in RegistrationTokens}

GateRegister ==
    \E r \in {Request("/api/auth/register", "POST", <<>>, <<>>,
                      AuthBody(JStr(<<"a@x">>), JStr(Password)), <<>>, <<>>, 0, now)} :
        ServeAuth(FALSE, r, Register(users, r, now))

GateList ==
    \E h \in GateHeaders : ServeTask(TRUE, ListRequest(h, <<>>, <<>>, 0), MaxGateTasks)

GateCreate ==
    \E h \in GateHeaders :
        ServeTask(TRUE, CreateRequest("POST", h, JObject(JStr(<<"a">>), Absent, Absent), 0),
                  MaxGateTasks)

GateDelete ==
    \E h \in GateHeaders :
        ServeTask(TRUE, DeleteRequest(h, Numeral(Len(SeedTasks) + 1), 0), MaxGateTasks)

NextGate ==
    \/ Tick
    \/ GateRegister
    \/ GateList
    \/ GateCreate
    \/ GateDelete

SpecGate == Init /\ [][NextGate]_vars

(* Properties of the gate specification *)

\* a header value as a reader of the scheme and the credential takes it apart:
\* what precedes its first space and what follows it
HasSpace(h) == Index(h, Space) # 0
Scheme(h) == SubSeq(h, 1, Index(h, Space) - 1)
Credential(h) == SubSeq(h, Index(h, Space) + 1, Len(h))

\* the number of whitespace-separated tokens of a header value
RECURSIVE NumFields(_)
NumFields(h) ==
    IF h = <<>> THEN 0
    ELSE IF Head(h) = Space THEN NumFields(Tail(h))
    ELSE IF Len(h) = 1 \/ h[2] = Space THEN 1 + NumFields(Tail(h))
    ELSE NumFields(Tail(h))

Rejected(msg) == ErrorResponse(StatusUnauthorized, msg)

\* the header is present, has scheme Bearer, and its token validates at t
Admissible(h, t) ==
    /\ h # <<>> /\ HasSpace(h) /\ Scheme(h) = Bearer
    /\ ValidateToken(Credential(h), JWTSecret, t).ok

\* what the last protected request met at the gate
GateBinds ==
    req # NoRequest =>
        /\ calls \in {0, 1}
        /\ calls = 1 <=> Admissible(req.header, req.at)
        /\ calls = 1 =>
              /\ ctx.UserID = Credential(req.header)[1].claims.user_id
              /\ ctx.Email = Credential(req.header)[1].claims.email
        /\ calls = 0 => ctx = NoUser /\ resp.status = StatusUnauthorized

\* a step after which the last protected request is a rejected one changed no
\* table, and a step that served a protected request changed no user
RejectionChangesNothing ==
    /\ calls' = 0 => tasks' = tasks
    /\ req' # req => users' = users

\* C3: the wrapped handler runs if and only if the Authorization header is
\* present, has scheme Bearer and carries a token that validates under the
\* configured secret; on a rejection the handler does not run and storage is
\* unchanged; on success it runs once and reads from the context the UserID
\* and Email of the presented token's claims
C3_GateShortCircuit == [](GateBinds) /\ [][RejectionChangesNothing]_vars

\* a request under a registered user's token passed the gate, the handler ran
\* once as that user and created a task
C3_Witness ==
    /\ calls = 1 /\ resp.status = StatusCreated
    /\ ctx = [UserID |-> 2, Email |-> <<"a@x">>]
    /\ tasks[Len(tasks)].user_id = 2

\* the rejection the checks give a header, taken in their order
Rejection(h, t) ==
    IF h = <<>> THEN "Authorization header required"
    ELSE IF ~HasSpace(h) THEN "Invalid authorization header format"
    ELSE IF Scheme(h) # Bearer THEN "Invalid authorization scheme. Use Bearer"
    ELSE IF ~ValidateToken(Credential(h), JWTSecret, t).ok THEN "Invalid or expired token"
    ELSE "none"

C7_AsStated ==
    (req # NoRequest /\ req.header # <<>> /\ NumFields(req.header) # 2) =>
        resp = Rejected("Invalid authorization header format") /\ checked = {}

\* C7 (as amended): a header value without a space is rejected 401 "Invalid
\* authorization header format" and no token is passed to validation; a value
\* with a space is cut at its first space only, so under scheme Bearer all that
\* follows is passed to validation as the credential, and a value of three or
\* more tokens such as "Bearer a b" is rejected 401 "Invalid or expired token"
C7_HeaderShape ==
    (req # NoRequest /\ req.header # <<>>) =>
        /\ ~HasSpace(req.header) =>
              /\ resp = Rejected("Invalid authorization header format")
              /\ checked = {} /\ calls = 0
        /\ (HasSpace(req.header) /\ Scheme(req.header) = Bearer) =>
              checked = {Credential(req.header)}
        /\ (HasSpace(req.header) /\ Scheme(req.header) # Bearer) => checked = {}
        /\ (NumFields(req.header) >= 3 /\ Scheme(req.header) = Bearer) =>
              resp = Rejected("Invalid or expired token") /\ calls = 0

\* "Bearer a b" was answered "Invalid or expired token" after "a b" went to validation
C7_Witness ==
    /\ req # NoRequest /\ req.header = ThreeTokens
    /\ resp = Rejected("Invalid or expired token")
    /\ checked = {<<Word("a"), Space, Word("b")>>}

\* the times at which user i was issued the token tok
IssuedAt(i, tok) ==
    {t \in users[i].created_at..now :
        tok = GenerateToken(users[i].id, users[i].email, JWTSecret, t)}

\* C10: a token issued at time t validates, and passes the gate, at every time
\* before t + 24 hours and at no time after t + 24 hours, whatever requests
\* (register, login, task mutations) were served in between
C10_TokenLifetime ==
    /\ \A i \in 1..Len(users) : \A tok \in TokensOf(i) : \A t \in IssuedAt(i, tok) :
          /\ now < t + TokenTTL => ValidateToken(<<tok>>, JWTSecret, now).ok
          /\ now > t + TokenTTL => ~ValidateToken(<<tok>>, JWTSecret, now).ok
    /\ \A i \in 1..Len(users) :
          (req # NoRequest /\ \E tok \in TokensOf(i) : req.header = BearerHeader(tok)) =>
              \A t \in IssuedAt(i, req.header[3]) :
                  /\ req.at < t + TokenTTL => calls = 1
                  /\ req.at > t + TokenTTL => calls = 0 /\ resp = Rejected("Invalid or expired token")

\* the token of the registration at time 0, under which a task was created at
\* time 0, is rejected when presented after it expired
C10_Witness ==
    /\ req # NoRequest /\ Len(users) = 2 /\ users[2].created_at = 0
    /\ req.header = BearerHeader(GenerateToken(2, users[2].email, JWTSecret, 0))
    /\ req.at > TokenTTL /\ calls = 0
    /\ \E i \in 1..Len(tasks) : tasks[i].user_id = 2 /\ tasks[i].created_at = 0

\* token strings that are not valid at time t: the empty one, text that is no
\* three-segment token, a registration token with its payload or its signature
\* rewritten, tokens signed under another secret, tokens declaring a method
\* outside the HMAC family (one of them carrying the MAC of the configured
\* secret), and the issued tokens that have expired
FailingTokens(t) ==
    {<<>>, <<Word("not-a-token")>>}
    \cup {<<tok>> : tok \in ForgedTokens}
    \cup {<<[tok EXCEPT !.sig = HMAC("HS256", WrongSecret, tok.claims)]>> :
             tok \in RegistrationTokens}
    \cup {<<tok>> : tok \in {k \in HeldTokens : t >= k.claims.exp}}

\* C11: ValidateToken fails for the empty token, for text that is no
\* three-segment token, for a token with a tampered payload or signature, for a
\* token declaring a non-HMAC algorithm and for an expired token; each failure
\* is nil claims with the error "failed to parse token", and behind "Bearer "
\* each is answered by the gate with the same 401 "Invalid or expired token"
C11_UniformTokenFailure ==
    /\ \A token \in FailingTokens(now) :
          /\ \A v \in {ValidateToken(token, JWTSecret, now)} :
                ~v.ok /\ v.claims = NoClaims /\ v.err.msg = "failed to parse token"
          /\ \A gate \in {AuthMiddleware(<<Word("Bearer"), Space>> \o token, now)} :
                ~gate.pass /\ gate.resp = Rejected("Invalid or expired token")
    /\ (req # NoRequest /\ HasSpace(req.header) /\ Scheme(req.header) = Bearer
            /\ Credential(req.header) \in FailingTokens(req.at)) =>
          resp = Rejected("Invalid or expired token") /\ calls = 0 /\ ctx = NoUser

\* the empty token was presented and rejected while an issued token has
\* expired and a token of a non-HMAC method carries the configured secret's MAC
C11_Witness ==
    /\ req # NoRequest /\ req.header = <<Word("Bearer"), Space>>
    /\ resp = Rejected("Invalid or expired token") /\ checked = {<<>>}
    /\ \E tok \in HeldTokens : now >= tok.claims.exp
    /\ \E token \in FailingTokens(now) :
          /\ token # <<>> /\ token[1].k = "jwt" /\ token[1].alg = "RS256"
          /\ token[1].sig = HMAC("RS256", JWTSecret, token[1].claims)

-----------------------------------------------------------------------------
(* The token specification: GenerateToken and ValidateToken on their own,
   and the issued token presented at the gate *)

Secrets == {JWTSecret, WrongSecret, ""}
UserIDs == {0, 1, 2}
TokenEmails == {<<>>, <<"a@x">>}

IssueToken ==
    \E userID \in UserIDs, email \in TokenEmails, secretKey \in Secrets :
        /\ issuedTok' = [k |-> "issued",
                         token |-> GenerateToken(userID, email, secretKey, now),
                         userID |-> userID, email |-> email, secretKey |-> secretKey,
                         at |-> now]
        /\ validated' = NoToken
        /\ req' = NoRequest /\ resp' = NoResponse /\ ctx' = NoUser
        /\ calls' = 0 /\ checked' = {}
        /\ UNCHANGED <<now, users, tasks, regs, ops>>

ValidateIssued ==
    /\ issuedTok # NoToken
    /\ \E secretKey \in Secrets :
          validated' = [k |-> "validated", secretKey |-> secretKey, at |-> now,
                        out |-> ValidateToken(<<issuedTok.token>>, secretKey, now)]
    /\ UNCHANGED <<now, users, tasks, req, resp, ctx, calls, checked, issuedTok, regs, ops>>

PresentIssued ==
    /\ issuedTok # NoToken
    /\ ServeTask(TRUE, ListRequest(BearerHeader(issuedTok.token), <<>>, <<>>, 0), 0)

NextToken ==
    \/ Tick
    \/ IssueToken
    \/ ValidateIssued
    \/ PresentIssued

SpecToken == Init /\ [][NextToken]_vars

(* Properties of the token specification *)

\* C8: for every user id (0 too), email (the empty one too) and secret (the
\* empty one too), ValidateToken(GenerateToken(userID, email, secret), secret)
\* succeeds right after issuance, and its claims hold that user id, that
\* email, the issuer "task-management-api" and the issuance time plus 24 hours
\* as expiry
C8_TokenRoundTrip ==
    (validated # NoToken /\ validated.secretKey = issuedTok.secretKey
        /\ validated.at = issuedTok.at) =>
            /\ validated.out.ok
            /\ validated.out.claims.user_id = issuedTok.userID
            /\ validated.out.claims.email = issuedTok.email
            /\ validated.out.claims.iss = "task-management-api"
            /\ validated.out.claims.exp = issuedTok.at + TokenTTL

\* the token of user id 0, the empty email and the empty secret validated
\* under the empty secret at the time of its issuance
C8_Witness ==
    /\ validated # NoToken /\ issuedTok.userID = 0 /\ issuedTok.email = <<>>
    /\ issuedTok.secretKey = "" /\ validated.secretKey = ""
    /\ validated.at = issuedTok.at /\ validated.out.ok

\* C9: a token issued with secret A fails ValidateToken under every secret
\* B # A, and the gate binds no identity from a token signed under a secret
\* other than the configured one
C9_SecretBinding ==
    /\ (validated # NoToken /\ validated.secretKey # issuedTok.secretKey) =>
          ~validated.out.ok
    /\ (req # NoRequest /\ issuedTok.secretKey # JWTSecret) =>
          calls = 0 /\ ctx = NoUser /\ resp = Rejected("Invalid or expired token")

\* a token signed under another secret failed validation under the configured
\* one before it expired and was rejected at the gate
C9_Witness ==
    /\ validated # NoToken /\ issuedTok # NoToken
    /\ issuedTok.secretKey = WrongSecret /\ validated.secretKey = JWTSecret
    /\ validated.at < issuedTok.at + TokenTTL /\ ~validated.out.ok
    /\ req # NoRequest /\ req.at < issuedTok.at + TokenTTL /\ calls = 0


-----------------------------------------------------------------------------
(* The task specification: one client registers, time passes, and the client,
   logged in, creates a task and updates it; each request and its response
   are kept in req and resp *)

\* a create body that also names an owner: CreateTaskRequest has no field for
\* it, so Decode drops the member
WithUserID(body, userID) ==
    [k |-> "obj", title |-> body.title, description |-> body.description,
     status |-> body.status, user_id |-> userID]

TaskCreateBodies ==
    {JObject(JStr(<<"a">>), JStr(<<"d">>), Absent),
     JObject(JStr(<<SP, "a", SP>>), Absent, JStr(TaskStatusInProgress)),
     WithUserID(JObject(JStr(<<"a">>), Absent, JStr(TaskStatusCompleted)), 1),
     JObject(JStr(<<"a">>), Absent, JNull),
     JObject(JStr(<<"a">>), Absent, JStr("")),
     JObject(JStr(<<"a">>), Absent, JStr("done")),
     JObject(Absent, JStr(<<"d">>), Absent),
     JObject(JNull, Absent, Absent),
     JObject(JStr(<<>>), Absent, Absent),
     JObject(JStr(<<SP, SP>>), JStr(<<"d">>), JStr(TaskStatusPending)),
     JObject(JStr(<<"a">>), JNum, Absent),
     BadJSON}

TaskUpdateBodies ==
    {JObject(Absent, Absent, Absent),
     JObject(Absent, Absent, JStr(TaskStatusCompleted)),
     JObject(JStr(<<"b">>), JNull, JNull),
     JObject(Absent, JStr(<<>>), Absent),
     JObject(JStr(<<"b">>), JStr(<<"e">>), JStr(TaskStatusInProgress)),
     JObject(JStr(<<SP>>), JStr(<<"e">>), JStr(TaskStatusCompleted)),
     JObject(JStr(<<"b">>), JStr(<<"e">>), JStr("done")),
     JObject(Absent, JStr(<<"e">>), JStr(""))}

\* the header of a client that has just logged in
TaskHeaders == {BearerHeader(tok) : tok \in {k \in HeldTokens : k.claims.iat = now}}

\* the paths of update requests: the first task made through the API and a
\* seeded task, which the client does not own
TaskPaths == {Numeral(Len(SeedTasks) + 1), <<"1">>}

TasksRegister ==
    \E r \in {Request("/api/auth/register", "POST", <<>>, <<>>,
                      AuthBody(JStr(<<"a@x">>), JStr(Password)), <<>>, <<>>, 0, now)} :
        ServeAuth(FALSE, r, Register(users, r, now))

\* the client asks for its first task until one is made
TasksCreate ==
    /\ Len(tasks) = Len(SeedTasks)
    /\ \E h \in TaskHeaders, b \in TaskCreateBodies :
          ServeTask(TRUE, CreateRequest("POST", h, b, 0), MaxGateTasks)

TasksUpdate ==
    \E h \in TaskHeaders, p \in TaskPaths, b \in TaskUpdateBodies :
        ServeTask(TRUE, UpdateRequest("PUT", h, p, b, 0), MaxGateTasks)

NextTasks ==
    \/ Tick
    \/ TasksRegister
    \/ TasksCreate
    \/ TasksUpdate

SpecTasks == Init /\ [][NextTasks]_vars

(* Properties of the task specification.  A step that leaves the clock and the
   users table alone served the request req' on the tasks table and wrote
   resp' and tasks'. *)

\* the step served a PUT on /api/tasks/{id}, a POST on /api/tasks
ServedPut ==
    /\ now' = now /\ users' = users
    /\ req'.route = "/api/tasks/" /\ req'.method = "PUT" /\ ParseUint(req'.path).ok
ServedPost ==
    /\ now' = now /\ users' = users
    /\ req'.route = "/api/tasks" /\ req'.method = "POST" /\ calls' = 1

\* the row of the tasks table that the path of the served request names
Target == CHOOSE i \in 1..Len(tasks) : tasks[i].id = ParseUint(req'.path).val

\* the value of a member of the body after the write: the string supplied, or
\* what was there when the member is absent or null
Supplied(m, old) == IF m.t = "str" THEN m.s ELSE old

\* a member holds a string of nothing but white space; a member holds a string
\* that is not a status
Blank(m) == m.t = "str" /\ \A k \in 1..Len(m.s) : m.s[k] = SP
NoStatus(m) == m.t = "str" /\ m.s \notin {"pending", "in_progress", "completed"}

\* C12: a successful PUT /api/tasks/{id} by the owner sets each of title,
\* description and status that the body holds to the supplied value, keeps each
\* one that is absent or null, leaves id, owner and created-at (and every other
\* task) unchanged, and sets updated-at to the time of the request, which is
\* not earlier than its previous value -- for the empty object too
C12_PartialUpdate ==
    [][(ServedPut /\ resp'.status = StatusOK) =>
          \A i \in {Target} :
              /\ tasks[i].user_id = ctx'.UserID
              /\ Len(tasks') = Len(tasks)
              /\ tasks'[i].title = Supplied(req'.body.title, tasks[i].title)
              /\ tasks'[i].description = Supplied(req'.body.description, tasks[i].description)
              /\ tasks'[i].status = Supplied(req'.body.status, tasks[i].status)
              /\ tasks'[i].id = tasks[i].id /\ tasks'[i].user_id = tasks[i].user_id
              /\ tasks'[i].created_at = tasks[i].created_at
              /\ tasks'[i].deleted_at = tasks[i].deleted_at
              /\ tasks'[i].updated_at = req'.at
              /\ tasks'[i].updated_at >= tasks[i].updated_at
              /\ \A j \in 1..Len(tasks) : j # i => tasks'[j] = tasks[j]
              /\ resp'.body.task = TaskResponse(tasks'[i])]_vars

\* the patch {"status": "completed"} was applied after the task was created:
\* title and description are those of the creation, updated-at is later than
\* created-at
C12_Witness ==
    /\ req.method = "PUT" /\ resp.status = StatusOK
    /\ req.body = JObject(Absent, Absent, JStr(TaskStatusCompleted))
    /\ \E i \in 1..Len(tasks) :
          /\ tasks[i].id = ParseUint(req.path).val
          /\ tasks[i].title = <<SP, "a", SP>> /\ tasks[i].status = TaskStatusCompleted
          /\ tasks[i].updated_at = req.at /\ tasks[i].updated_at > tasks[i].created_at

\* the served PUT is the owner's, on a task that exists, with a body that decodes
OwnerPut ==
    /\ ServedPut /\ calls' = 1 /\ DecodeOK(req'.body)
    /\ \E i \in 1..Len(tasks) :
          /\ tasks[i].id = ParseUint(req'.path).val
          /\ tasks[i].user_id = ctx'.UserID /\ tasks[i].deleted_at = NULL

\* C13: for a PUT by the owner on an existing task, a title that is present and
\* empty after trimming yields 400, a status that is present and not one of
\* pending, in_progress, completed yields 400, and in both cases the whole
\* tasks table is unchanged; otherwise the PUT succeeds, and a description that
\* is present, the empty string too, replaces the stored one
C13_RejectedUpdate ==
    [][OwnerPut =>
          /\ (Blank(req'.body.title) \/ NoStatus(req'.body.status)) =>
                resp'.status = StatusBadRequest /\ tasks' = tasks
          /\ ~(Blank(req'.body.title) \/ NoStatus(req'.body.status)) =>
                /\ resp'.status = StatusOK
                /\ req'.body.description.t = "str" =>
                      tasks'[Target].description = req'.body.description.s]_vars

\* a patch with a valid title and description and the status "done" was
\* rejected at a time after the task's last write, and the task holds none of it
C13_Witness ==
    /\ req.method = "PUT" /\ resp.status = StatusBadRequest
    /\ req.body = JObject(JStr(<<"b">>), JStr(<<"e">>), JStr("done"))
    /\ \E i \in 1..Len(tasks) :
          /\ tasks[i].id = ParseUint(req.path).val /\ tasks[i].user_id = ctx.UserID
          /\ tasks[i].title # <<"b">> /\ tasks[i].description # <<"e">>
          /\ tasks[i].updated_at < req.at


\* the body of the served POST decodes, its title is not blank and its status
\* is a valid one, or absent or null
GoodCreate(b) ==
    /\ DecodeOK(b) /\ b.title.t = "str" /\ ~Blank(b.title)
    /\ b.status.t = "str" => b.status.s \in {"pending", "in_progress", "completed"}

\* the step added one row, owned by the user of the presented token, with the
\* title and the description of the body
Added(b) ==
    /\ Len(tasks') = Len(tasks) + 1
    /\ SubSeq(tasks', 1, Len(tasks)) = tasks
    /\ \A new \in {tasks'[Len(tasks')]} :
          /\ new.user_id = req'.header[3].claims.user_id
          /\ new.user_id = ctx'.UserID
          /\ new.title = b.title.s
          /\ new.description = Supplied(b.description, <<>>)
          /\ new.id \notin {tasks[i].id : i \in 1..Len(tasks)}
          /\ new.created_at = req'.at /\ new.updated_at = req'.at
          /\ new.deleted_at = NULL
          /\ resp'.body.task = TaskResponse(new)

\* C14: a POST /api/tasks by authenticated user U whose body decodes with a
\* title that is not empty after trimming and a status that is valid or omitted
\* returns 201 and adds exactly one task, owned by U as the token names them
\* (a user_id member of the body is ignored), with the supplied title and
\* description; a title that is missing, empty or white space only returns 400
\* and adds no task
C14_Create ==
    [][ServedPost =>
          /\ GoodCreate(req'.body) => resp'.status = StatusCreated /\ Added(req'.body)
          /\ (req'.body.k = "obj" /\ (req'.body.title.t \in {"absent", "null"}
                                      \/ Blank(req'.body.title))) =>
                resp'.status = StatusBadRequest /\ tasks' = tasks]_vars

\* a body naming user 1 as owner was answered 201 and the task is owned by the
\* user of the token, who is not user 1
C14_Witness ==
    /\ req.method = "POST" /\ req.route = "/api/tasks" /\ resp.status = StatusCreated
    /\ "user_id" \in DOMAIN req.body /\ req.body.user_id = 1
    /\ tasks[Len(tasks)].user_id = ctx.UserID /\ ctx.UserID # 1
    /\ tasks[Len(tasks)].id = resp.body.task.id

\* the status a POST stores, by what C15 states: pending for an omitted one,
\* the given one when it is valid, none (the request is refused) otherwise
StatusAsStated(m) ==
    IF m.t \in {"absent", "null"} THEN <<TaskStatusPending>>
    ELSE IF m.s \in {"pending", "in_progress", "completed"} THEN <<m.s>>
    ELSE <<>>

\* C15 (as stated): on POST /api/tasks an omitted status is stored as pending, a
\* status that is one of pending, in_progress, completed is stored as given,
\* and a status that is any other string, "" included, yields 400 and creates
\* no task
C15_AsStated ==
    [][(ServedPost /\ DecodeOK(req'.body) /\ req'.body.title.t = "str"
            /\ ~Blank(req'.body.title)) =>
          \A st \in {StatusAsStated(req'.body.status)} :
              /\ st # <<>> => /\ resp'.status = StatusCreated
                              /\ Len(tasks') = Len(tasks) + 1
                              /\ tasks'[Len(tasks')].status = st[1]
              /\ st = <<>> => resp'.status = StatusBadRequest /\ tasks' = tasks]_vars

\* what the code does: the same, but the status "" is taken for an omitted one
\* and stored as pending
C15_EmptyStatusIsOmitted ==
    [][(ServedPost /\ DecodeOK(req'.body) /\ req'.body.title.t = "str"
            /\ ~Blank(req'.body.title)) =>
          \A st \in {IF req'.body.status = JStr("") THEN <<TaskStatusPending>>
                     ELSE StatusAsStated(req'.body.status)} :
              /\ st # <<>> => /\ resp'.status = StatusCreated
                              /\ Len(tasks') = Len(tasks) + 1
                              /\ tasks'[Len(tasks')].status = st[1]
              /\ st = <<>> => resp'.status = StatusBadRequest /\ tasks' = tasks]_vars

\* a POST with the status "" was answered 201 and its task is pending
C15_Witness ==
    /\ req.method = "POST" /\ req.route = "/api/tasks" /\ req.body.k = "obj"
    /\ req.body.status = JStr("") /\ resp.status = StatusCreated
    /\ tasks[Len(tasks)].status = TaskStatusPending
    /\ tasks[Len(tasks)].id = resp.body.task.id


-----------------------------------------------------------------------------
(* The paging specification: a client that has made some tasks, at different
   times or at the same time, logs in, lists them page by page under every
   kind of page and page_size parameter, and deletes them one by one *)

\* 2^62 + 1 as a numeral: the page whose offset is 2^64 for a page size of 4
PageOfWrappedOffset == <<"4", "6", "1", "1", "6", "8", "6", "0", "1", "8", "4", "2", "7",
                         "3", "8", "7", "9", "0", "5">>

\* the page and page_size parameters of the list requests
PagingParams ==
    {<<<<>>, <<>>>>, <<<<>>, <<"2">>>>, <<<<"0">>, <<"0">>>>, <<<<"x">>, <<"x">>>>,
     <<<<"-", "1">>, <<"5", "0", "0">>>>, <<MinInt64Magnitude, <<"-", "5">>>>,
     <<<<"1">>, <<"1">>>>, <<<<"2">>, <<"1">>>>, <<<<"+", "3">>, <<"1">>>>,
     <<<<"1">>, <<"2">>>>, <<<<"2">>, <<"2">>>>, <<<<"0", "2">>, <<"1", "0", "0">>>>,
     <<PageOfWrappedOffset, <<"1">>>>, <<PageOfWrappedOffset, <<"1", "0", "0">>>>}

\* how many tasks in a row the client made at the same time: each at its own
\* time, or two at a time
TieSizes == {1, 2}

PagingUser ==
    [id |-> Len(SeedUsers) + 1, email |-> <<"a@x">>, password |-> HashPassword(Password),
     created_at |-> 0]

\* the i-th task of the client, made at time (i - 1) \div tie
PagingTask(i, tie) ==
    [id |-> Len(SeedTasks) + i, title |-> <<"t">>, description |-> <<>>,
     status |-> TaskStatusPending, user_id |-> PagingUser.id,
     created_at |-> (i - 1) \div tie, updated_at |-> (i - 1) \div tie, deleted_at |-> NULL]

InitPaging ==
    /\ now = MaxPageTasks
    /\ users = Append(SeedUsers, PagingUser)
    /\ \E n \in 0..MaxPageTasks, tie \in TieSizes :
          tasks = SeedTasks \o [i \in 1..n |-> PagingTask(i, tie)]
    /\ req = NoRequest
    /\ resp = NoResponse
    /\ ctx = NoUser
    /\ calls = 0
    /\ checked = {}
    /\ issuedTok = NoToken
    /\ validated = NoToken
    /\ regs = NoRegistrations
    /\ ops = NoCalls

PagingList ==
    \E h \in TaskHeaders, p \in PagingParams :
        ServeTask(TRUE, ListRequest(h, p[1], p[2], 0), MaxPageTasks)

PagingDelete ==
    \E h \in TaskHeaders, i \in 1..MaxPageTasks :
        /\ Len(SeedTasks) + i <= Len(tasks)
        /\ ServeTask(TRUE, DeleteRequest(h, Decimal(Len(SeedTasks) + i), 0), MaxPageTasks)

NextPaging ==
    \/ PagingList
    \/ PagingDelete

SpecPaging == InitPaging /\ [][NextPaging]_vars

(* Properties of the paging specification *)

\* the last request was a list request that reached the handler
ListServed == req.route = "/api/tasks" /\ req.method = "GET" /\ calls = 1

\* a parameter that parses as an integer greater than 0 (an int of Go: at most
\* 2^63 - 1), and the numeral of that integer
PositiveInteger(s) ==
    /\ s # <<>>
    /\ \A d \in {IF Head(s) = "+" THEN Tail(s) ELSE s} :
          /\ d # <<>> /\ \A i \in 1..Len(d) : IsDigit(d[i])
          /\ \E i \in 1..Len(d) : d[i] # "0"
          /\ ~NumeralGreater(StripZeros(d), MaxInt64)
Requested(s) == StripZeros(IF Head(s) = "+" THEN Tail(s) ELSE s)

\* C16: the effective page is the requested value when it parses as an integer
\* greater than 0 and 1 otherwise; the effective page_size is min(requested,
\* 100) when the requested value parses as an integer greater than 0 and 10
\* otherwise; no value is rejected, and the response echoes the effective
\* values, so 1 <= page and 1 <= page_size <= 100 in every list response
C16_PageNormalisation ==
    ListServed =>
        /\ resp.status = StatusOK
        /\ resp.body.page = IF PositiveInteger(req.page) THEN Requested(req.page)
                            ELSE <<"1">>
        /\ resp.body.page_size =
              IF ~PositiveInteger(req.page_size) THEN 10
              ELSE IF NumeralGreater(Requested(req.page_size), <<"1", "0", "0">>) THEN 100
              ELSE DecimalValue(Requested(req.page_size), 0)
        /\ NumeralGreater(resp.body.page, <<"0">>)
        /\ 1 <= resp.body.page_size /\ resp.body.page_size <= 100

\* page=-1 and page_size=500 were answered with page 1 and page_size 100
C16_Witness ==
    /\ ListServed /\ req.page = <<"-", "1">> /\ req.page_size = <<"5", "0", "0">>
    /\ resp.status = StatusOK /\ resp.body.page = <<"1">> /\ resp.body.page_size = 100


\* the number of items the metadata of a list response calls for:
\* min(page_size, max(0, total - (page - 1) * page_size)), which is 0 for a
\* page past the last one
ItemsDue(body) ==
    IF NumeralGreater(body.page, Decimal(body.total_pages)) THEN 0
    ELSE IF body.total - (DecimalValue(body.page, 0) - 1) * body.page_size < body.page_size
         THEN body.total - (DecimalValue(body.page, 0) - 1) * body.page_size
         ELSE body.page_size

\* total_pages, has_next, has_prev and the number of items of a list response
\* are those its page, page_size and total call for
MetadataAgrees(body) ==
    /\ body.total_pages = (IF body.total = 0 THEN 0
                           ELSE ((body.total - 1) \div body.page_size) + 1)
    /\ body.has_next = NumeralGreater(Decimal(body.total_pages), body.page)
    /\ body.has_prev = (body.page # <<"1">>)
    /\ Len(body.tasks) = ItemsDue(body)

\* (page - 1) * page_size is at most 2^63 - 1
OffsetFits(body) ==
    ~NumeralGreater(MulNumeral(SubNumeral(body.page, <<"1">>), body.page_size), MaxInt64)

\* C17 (as stated): in every list response total_pages = ceil(total /
\* page_size), has_next is true exactly when page < total_pages, has_prev
\* exactly when page > 1, and the number of returned items is
\* min(page_size, max(0, total - (page - 1) * page_size))
C17_AsStated == (ListServed /\ resp.status = StatusOK) => MetadataAgrees(resp.body)

\* what the code does: the same for every response whose offset
\* (page - 1) * page_size fits the 64 bits of an int
C17_MetadataWithinInt ==
    (ListServed /\ resp.status = StatusOK /\ OffsetFits(resp.body)) =>
        MetadataAgrees(resp.body)

\* page 2^62 + 1 with page_size 100 was answered with tasks, has_prev true
\* and has_next false
C17_Witness ==
    /\ ListServed /\ resp.status = StatusOK
    /\ req.page = PageOfWrappedOffset /\ resp.body.page = PageOfWrappedOffset
    /\ resp.body.page_size = 100 /\ resp.body.total = 3 /\ resp.body.total_pages = 1
    /\ Len(resp.body.tasks) = 3 /\ resp.body.has_prev /\ ~resp.body.has_next

\* the offset of a list response is (page - 1) * page_size and not negative
ExactOffset(body) ==
    \A offset \in {Offset64(body.page, body.page_size)} :
        /\ ~offset.neg
        /\ offset.mag = MulNumeral(SubNumeral(body.page, <<"1">>), body.page_size)

\* the page of a list response is past the last page
PastLastPage(body) == NumeralGreater(body.page, Decimal(body.total_pages))

\* C27 (as stated): for every accepted page and every effective page_size in
\* 1..100 the offset passed to the query is (page - 1) * page_size, not
\* negative and not wrapped, so a page past the last one returns no items with
\* has_next false
C27_AsStated ==
    (ListServed /\ resp.status = StatusOK) =>
        /\ ExactOffset(resp.body)
        /\ PastLastPage(resp.body) => (resp.body.tasks = <<>> /\ ~resp.body.has_next)

\* what the code does: the offset is (page - 1) * page_size modulo 2^64, which
\* is that product when it is at most 2^63 - 1; then a page past the last one
\* returns no items; has_next is false for every page past the last one
C27_OffsetModulo ==
    (ListServed /\ resp.status = StatusOK) =>
        /\ OffsetFits(resp.body) =>
              /\ ExactOffset(resp.body)
              /\ PastLastPage(resp.body) => resp.body.tasks = <<>>
        /\ PastLastPage(resp.body) => ~resp.body.has_next
        /\ ~OffsetFits(resp.body) => ~ExactOffset(resp.body)

\* page 2^62 + 1 with page_size 100: the product 2^62 * 100 wrapped to the
\* offset 0, and the response holds the tasks of the first page
C27_Witness ==
    /\ ListServed /\ resp.status = StatusOK
    /\ resp.body.page = PageOfWrappedOffset /\ resp.body.page_size = 100
    /\ Offset64(resp.body.page, resp.body.page_size) = [neg |-> FALSE, mag |-> <<"0">>]
    /\ PastLastPage(resp.body) /\ resp.body.tasks # <<>>
    /\ resp.body.tasks[1].id = Len(tasks)

\* the ids of the items on page p of page size ps, when the database returns
\* the client's rows in this order
PageIDs(h, p, ps, order) ==
    LET ids(items) == [n \in 1..Len(items) |-> items[n].id]
    IN  ids(ServeProtected(tasks, ListRequest(h, Decimal(p), Decimal(ps), 0), order, now)
                .resp.body.tasks)

\* the pages 1..last of page size ps, one after the other, each in the order
\* the database returned for its request
RECURSIVE Pages(_, _, _, _)
Pages(h, last, ps, orders) ==
    IF last = 0 THEN <<>>
    ELSE Pages(h, last - 1, ps, orders) \o PageIDs(h, last, ps, orders[last])

\* the sequence of task ids holds every live task of the user once, in
\* non-increasing order of creation time
EveryTaskOnce(ids, userID) ==
    /\ Len(ids) = Cardinality(LiveRowsOf(userID))
    /\ \A i \in LiveRowsOf(userID) : \E n \in 1..Len(ids) : ids[n] = tasks[i].id
    /\ \A m, n \in 1..Len(ids) :
          m < n => \E i, j \in LiveRowsOf(userID) :
                      /\ tasks[i].id = ids[m] /\ tasks[j].id = ids[n]
                      /\ tasks[i].created_at >= tasks[j].created_at

\* the number of pages of n tasks
LastPage(n, ps) == (n + ps - 1) \div ps

\* C18 (as stated): with the store unchanged and a fixed page_size, the items
\* of pages 1..total_pages concatenated hold every non-deleted task of the
\* owner exactly once, in non-increasing creation-time order, also when several
\* of the tasks share a creation time: whatever order the database gives the
\* rows of equal created_at in each of the requests
C18_AsStated ==
    \A h \in TaskHeaders, ps \in 1..2 :
        \A last \in {LastPage(Cardinality(LiveRowsOf(PagingUser.id)), ps)} :
            \A orders \in [1..last -> Orderings(tasks, PagingUser.id)] :
                EveryTaskOnce(Pages(h, last, ps, orders), PagingUser.id)

\* what the code does: the same when the database returns the rows in one
\* order for all the requests, as it does when no two live tasks of the owner
\* share a creation time
C18_PagesOfOneOrder ==
    \A h \in TaskHeaders, ps \in 1..2 :
        \A last \in {LastPage(Cardinality(LiveRowsOf(PagingUser.id)), ps)} :
            \A order \in Orderings(tasks, PagingUser.id) :
                EveryTaskOnce(Pages(h, last, ps, [p \in 1..last |-> order]), PagingUser.id)

\* two live tasks of the client share a creation time, and page 2 of page size
\* 1 was answered with the task that page 1 holds under another order of the two
C18_Witness ==
    /\ ListServed /\ resp.status = StatusOK
    /\ req.page = <<"2">> /\ req.page_size = <<"1">> /\ Len(resp.body.tasks) = 1
    /\ \E i, j \in LiveRowsOf(PagingUser.id) :
          i # j /\ tasks[i].created_at = tasks[j].created_at
    /\ \E order \in Orderings(tasks, PagingUser.id) :
          PageIDs(req.header, 1, 1, order) = <<resp.body.tasks[1].id>>

-----------------------------------------------------------------------------
(* Registration, one request at a time *)

\* a register request for this email, with storage working
RegisterOf(email, password) ==
    Request("/api/auth/register", "POST", <<>>, <<>>, AuthBody(JStr(email), JStr(password)),
            <<>>, <<>>, 0, now)

\* the passwords of the register requests of the clients
RegisterPasswords == {Password, <<"q">>}

\* C19: when register requests are served one after another, no two rows of
\* the users table have the same email, and a register request whose email is
\* that of a row of the table is answered 409 and leaves the table as it was
C19_UniqueEmail ==
    /\ \A i, j \in 1..Len(users) : users[i].email = users[j].email => i = j
    /\ \A i \in 1..Len(users), pw \in RegisterPasswords :
           \A out \in {Register(users, RegisterOf(users[i].email, pw), now)} :
               /\ out.resp = ErrorResponse(StatusConflict,
                                           "User with this email already exists")
               /\ out.users = users

\* two users have registered, and one of them registers again with another
\* password
C19_Witness ==
    /\ Len(users) = Len(SeedUsers) + 2
    /\ \E i \in (Len(SeedUsers) + 1)..Len(users) :
           /\ users[i].password = HashPassword(Password)
           /\ Register(users, RegisterOf(users[i].email, <<"q">>), now).resp.status
                  = StatusConflict

-----------------------------------------------------------------------------
(* Registration, several requests at a time: each Register call runs in its own
   goroutine, and the existence check and the insert are two statements of the
   database, so another call may run between them *)

\* bodies of the register requests of the clients
RaceBodies ==
    {AuthBody(JStr(e), JStr(pw)) : e \in Emails \cup {<<"test@example.com">>},
                                   pw \in RegisterPasswords}
    \cup {AuthBody(JStr(<<SP>>), JStr(Password))}

\* a call enters Register and runs up to the existence check
RaceCheck(p) ==
    /\ regs[p].pc = "idle"
    /\ \E b \in RaceBodies :
         \E r \in {Request("/api/auth/register", "POST", <<>>, <<>>, b, <<>>, <<>>, 0, now)} :
           \E lookup \in {RegisterCheck(users, r)} :
             regs' = [regs EXCEPT ![p] =
                         IF lookup.done
                         THEN [pc |-> "done", r |-> r, passed |-> FALSE, resp |-> lookup.resp]
                         ELSE [pc |-> "checked", r |-> r, request |-> lookup.request]]
    /\ UNCHANGED <<now, users, tasks, req, resp, ctx, calls, checked, issuedTok, validated, ops>>

\* a call that found no user with the email inserts the user and responds
RaceInsert(p) ==
    /\ regs[p].pc = "checked"
    /\ \E out \in {RegisterInsert(users, regs[p].request, regs[p].r, now)} :
          /\ users' = out.users
          /\ regs' = [regs EXCEPT ![p] = [pc |-> "done", r |-> regs[p].r, passed |-> TRUE,
                                          resp |-> out.resp]]
    /\ UNCHANGED <<now, tasks, req, resp, ctx, calls, checked, issuedTok, validated, ops>>

\* the response is sent and the goroutine ends
RaceReturn(p) ==
    /\ regs[p].pc = "done"
    /\ regs' = [regs EXCEPT ![p] = Idle]
    /\ UNCHANGED <<now, users, tasks, req, resp, ctx, calls, checked, issuedTok, validated, ops>>

NextRace ==
    \E p \in RegisterCalls :
        \/ RaceCheck(p)
        \/ RaceInsert(p)
        \/ RaceReturn(p)

SpecRace == Init /\ [][NextRace]_vars

\* the email of the register request of a call
EmailOf(p) == regs[p].r.body.email.s

\* both calls were for the same email and both found no user with it: each
\* made its existence check before the other's insert
Raced(p, q) ==
    /\ p # q
    /\ regs[p].pc = "done" /\ regs[p].passed
    /\ regs[q].pc = "done" /\ regs[q].passed
    /\ EmailOf(p) = EmailOf(q)

RowsOf(email) == {i \in 1..Len(users) : users[i].email = email}

\* C20, as stated: when two register requests for the same email both pass the
\* existence check before either inserts, at most one user row with that email
\* is created, and the request that loses at the uniqueness constraint is
\* answered 409
C20_AsStated ==
    \A p, q \in RegisterCalls :
        Raced(p, q) =>
            /\ Cardinality(RowsOf(EmailOf(p))) <= 1
            /\ regs[q].resp.status # StatusCreated => regs[q].resp.status = StatusConflict

\* C20, what the code does: of two such requests one is answered 201 with the
\* one row of that email, and the other, whose insert the unique index of the
\* table refuses, is answered 500 "Failed to create user"
C20_LoserIsAnswered500 ==
    \A p, q \in RegisterCalls :
        Raced(p, q) =>
            /\ Cardinality(RowsOf(EmailOf(p))) = 1
            /\ \/ /\ regs[p].resp.status = StatusCreated
                  /\ regs[q].resp = ErrorResponse(StatusInternalServerError,
                                                  "Failed to create user")
               \/ /\ regs[q].resp.status = StatusCreated
                  /\ regs[p].resp = ErrorResponse(StatusInternalServerError,
                                                  "Failed to create user")

\* two register requests for one email have both passed the existence check
\* and both have made their insert
C20_Witness ==
    \E p, q \in RegisterCalls :
        /\ Raced(p, q)
        /\ regs[q].resp.status # StatusCreated
        /\ \E i \in RowsOf(EmailOf(p)) : regs[p].resp.body.user.id = users[i].id

-----------------------------------------------------------------------------
(* Login *)

\* a login request with this email and password
LoginOf(email, password) ==
    Request("/api/auth/login", "POST", <<>>, <<>>, AuthBody(JStr(email), JStr(password)),
            <<>>, <<>>, 0, now)

\* the users table without the rows of an email
WithoutEmail(rows, email) == SelectSeq(rows, LAMBDA u : u.email # email)

\* the emails the clients log in with
LoginEmails == Emails \cup {<<"test@example.com">>}

\* the row of an email has another password than this one
WrongPassword(email, pw) ==
    \E i \in 1..Len(users) : users[i].email = email /\ ~(users[i].password = HashPassword(pw))

\* C21: for one non-blank email and password, the login response when the
\* email is registered and the password is wrong has status 401 and the same
\* message as the login response when no user has the email
C21_LoginNonEnumeration ==
    \A e \in LoginEmails, pw \in RegisterPasswords :
        WrongPassword(e, pw) =>
            \A wrong \in {Login(users, LoginOf(e, pw), now)},
               nobody \in {Login(WithoutEmail(users, e), LoginOf(e, pw), now)} :
                /\ wrong.resp.status = StatusUnauthorized
                /\ nobody.resp.status = StatusUnauthorized
                /\ wrong.resp.body = nobody.resp.body

\* a registered user whose password opens a session, asked with another one
C21_Witness ==
    \E i \in 1..Len(users) :
        /\ users[i].password = HashPassword(Password)
        /\ Login(users, LoginOf(users[i].email, Password), now).resp.status = StatusOK
        /\ Login(users, LoginOf(users[i].email, <<"q">>), now).resp.status = StatusUnauthorized
        /\ Login(WithoutEmail(users, users[i].email), LoginOf(users[i].email, <<"q">>),
                 now).resp.status = StatusUnauthorized

\* the login response is 200 with a token that validates under the configured
\* secret to this user
OpensSession(response, user) ==
    /\ response.status = StatusOK
    /\ \A v \in {ValidateToken(response.body.token, JWTSecret, now)} :
          v.ok /\ v.claims.user_id = user.id /\ v.claims.email = user.email

\* the passwords the clients log in with; the last one is white space
LoginPasswords == RegisterPasswords \cup {<<"r">>, <<SP>>}

\* what a registration that returned 201 has established, for the logins with
\* the passwords of pws: the registered password opens a session, the other
\* passwords are answered 401
Registered(rows, user, password, pws) ==
    /\ OpensSession(Login(rows, LoginOf(user.email, password), now).resp, user)
    /\ \A other \in pws \ {password} :
          Login(rows, LoginOf(user.email, other), now).resp
              = ErrorResponse(StatusUnauthorized, "Invalid email or password")

\* the register requests answered 201 in this state hand out a token that
\* validates to the new user, and the users registered before and the new
\* one can log in as Registered says
RegisterThenLogin(pws) ==
    /\ \A i \in (Len(SeedUsers) + 1)..Len(users) :
          Registered(users, users[i], users[i].password.of, pws)
    /\ \A e \in LoginEmails, pw \in RegisterPasswords :
          \A out \in {Register(users, RegisterOf(e, pw), now)} :
              out.resp.status = StatusCreated =>
                  /\ Len(out.users) = Len(users) + 1
                  /\ \A user \in {out.users[Len(out.users)]} :
                        /\ user.email = e
                        /\ out.resp.body.user.id = user.id
                        /\ \A v \in {ValidateToken(out.resp.body.token, JWTSecret, now)} :
                              v.ok /\ v.claims.user_id = user.id /\ v.claims.email = e
                        /\ Registered(out.users, user, pw, pws)

\* C22, as stated: after a registration of (email, password) has returned 201,
\* in every later state a login with that email and password returns 200 with
\* a token that validates to the registered user's id and email, and a login
\* with that email and any different password returns 401
C22_AsStated == RegisterThenLogin(LoginPasswords)

\* C22: the same, for the different passwords that are not blank; a login
\* whose password is empty or white space is answered 400
C22_RegisterThenLogin ==
    /\ RegisterThenLogin({pw \in LoginPasswords : \E k \in 1..Len(pw) : pw[k] # SP})
    /\ \A i \in (Len(SeedUsers) + 1)..Len(users) :
          Login(users, LoginOf(users[i].email, <<SP>>), now).resp
              = ErrorResponse(StatusBadRequest, "Email and password are required")

\* two users have registered with different passwords: each one's password
\* opens a session for it, and the password of the other is answered 401
C22_Witness ==
    /\ \E i, j \in (Len(SeedUsers) + 1)..Len(users) :
          /\ users[i].password # users[j].password
          /\ OpensSession(Login(users, LoginOf(users[i].email, users[i].password.of),
                                now).resp, users[i])
          /\ Login(users, LoginOf(users[i].email, users[j].password.of), now).resp.status
                 = StatusUnauthorized

-----------------------------------------------------------------------------
(* Storage failures *)

\* the requests whose storage calls are made to fail
ProbeRequests ==
    {RegisterOf(e, Password) : e \in LoginEmails}
    \cup {LoginOf(e, pw) : e \in LoginEmails, pw \in RegisterPasswords}
    \cup UNION {{ListRequest(h, <<>>, <<>>, 0),
                 CreateRequest("POST", h, JObject(JStr(<<"a">>), Absent, Absent), 0)}
                \cup UNION {{GetRequest(h, p, 0), DeleteRequest(h, p, 0),
                             UpdateRequest("PUT", h, p,
                                           JObject(JStr(<<"b">>), Absent, Absent), 0)}
                            : p \in IDPaths(MaxTasks)}
                : h \in ClientHeaders}

\* the response to r in this state when the storage call f of its handler
\* fails (none when f = 0), and the tables after it
Served(r, f) ==
    LET failing == [r EXCEPT !.dbfail = f]
    IN  IF r.route = "/api/auth/register"
        THEN [resp |-> Register(users, failing, now).resp,
              users |-> Register(users, failing, now).users, tasks |-> tasks]
        ELSE IF r.route = "/api/auth/login"
        THEN [resp |-> Login(users, failing, now).resp, users |-> users, tasks |-> tasks]
        ELSE LET out == ServeProtected(tasks, failing,
                                       CHOOSE order \in OrdersFor(tasks, failing, now) : TRUE,
                                       now)
             IN  [resp |-> out.resp, users |-> users, tasks |-> out.tasks]

\* the handler of r makes its storage call f: the first when the request
\* passes the gate and the validation of its input, the second (the insert of
\* register, the find of list, the save, the delete) when the first call
\* succeeds and, for register, finds no user
StorageCallMade(r, f) ==
    LET status == Served(r, 0).resp.status
    IN  IF f = 1
        THEN status \notin {StatusBadRequest, StatusMethodNotAllowed}
             /\ (status = StatusUnauthorized => r.route = "/api/auth/login")
        ELSE /\ status \in {StatusOK, StatusCreated, StatusNoContent}
             /\ r.route # "/api/auth/login"
             /\ ~(r.route = "/api/tasks" /\ r.method = "POST")
             /\ ~(r.route = "/api/tasks/" /\ r.method = "GET")

\* the storage call f of r looks a row up by its key: the user of an email,
\* the task of an id
IsLookup(r, f) ==
    f = 1 /\ (r.route \in {"/api/auth/register", "/api/auth/login", "/api/tasks/"})

\* C23, as stated: whenever a storage call fails during a request, the
\* response is 500, never 404, 401, 409 or a success status, and the handler
\* does not go on as if the lookup had found nothing
C23_AsStated ==
    \A r \in ProbeRequests, f \in 1..2 :
        StorageCallMade(r, f) => Served(r, f).resp.status = StatusInternalServerError

\* C23, what the code does: a failed count, find, insert, save or delete is
\* answered 500 and changes no table; a failed lookup by key is answered as
\* if no row had been found - login 401, get, update and delete 404, and
\* register goes on to the insert
C23_FailedLookupIsNotFound ==
    \A r \in ProbeRequests, f \in 1..2 :
        StorageCallMade(r, f) =>
            \A out \in {Served(r, f)} :
                IF ~IsLookup(r, f)
                THEN /\ out.resp.status = StatusInternalServerError
                     /\ out.users = users /\ out.tasks = tasks
                ELSE IF r.route = "/api/auth/login"
                THEN out.resp = ErrorResponse(StatusUnauthorized, "Invalid email or password")
                ELSE IF r.route = "/api/tasks/"
                THEN out.resp = ErrorResponse(StatusNotFound, "Task not found")
                     /\ out.tasks = tasks
                ELSE out.resp.status \in {StatusCreated, StatusInternalServerError}
                     /\ (out.resp.status = StatusCreated <=>
                             ~UniqueEmailViolated(users, r.body.email.s))

\* a registered user who owns a task: the login with the right password and
\* the reading of the task are answered 401 and 404 when their lookup fails
C23_Witness ==
    \E r, g \in ProbeRequests :
        /\ r.route = "/api/auth/login" /\ Served(r, 0).resp.status = StatusOK
        /\ Served(r, 1).resp.status = StatusUnauthorized
        /\ g.route = "/api/tasks/" /\ g.method = "GET" /\ Served(g, 0).resp.status = StatusOK
        /\ Served(g, 1).resp.status = StatusNotFound

-----------------------------------------------------------------------------
(* The owner of a task *)

\* the rows of old are in new under the same id and owner
OwnersKept(old, new) ==
    /\ Len(new) >= Len(old)
    /\ \A i \in 1..Len(old) : new[i].id = old[i].id /\ new[i].user_id = old[i].user_id

\* the tasks table after a request of the holder of a token
AfterRequest(r) ==
    ServeProtected(tasks, r, CHOOSE order \in OrdersFor(tasks, r, now) : TRUE, now).tasks

\* a create request of the holder of tok adds at most one row, owned by the
\* user of the token, whatever owner the body names; an update request that
\* names an owner changes the owner of no row
OwnerFromToken ==
    \A tok \in HeldTokens :
        /\ \A b \in {JObject(JStr(<<"a">>), Absent, Absent)} :
             \A made \in {AfterRequest(CreateRequest("POST", BearerHeader(tok),
                                                     WithUserID(b, 1), 0))} :
               /\ OwnersKept(tasks, made)
               /\ Len(made) = Len(tasks) + 1
               /\ made[Len(made)].user_id = tok.claims.user_id
               /\ \E i \in 1..Len(users) : users[i].id = made[Len(made)].user_id
        /\ \A p \in IDPaths(MaxTasks) :
             \A saved \in {AfterRequest(UpdateRequest("PUT", BearerHeader(tok), p,
                               WithUserID(JObject(JStr(<<"b">>), Absent, Absent), 1), 0))} :
               OwnersKept(tasks, saved) /\ Len(saved) = Len(tasks)

\* C25: the owner of a task is the authenticated user of the request that
\* created it, and no later request (update, delete, list, get, register,
\* login) changes it
C25_OwnerImmutable == [](OwnerFromToken) /\ [][OwnersKept(tasks, tasks')]_vars

\* two users own a task each, made through the API; one of the two tasks has
\* been deleted since
C25_Witness ==
    \E i, j \in (Len(SeedTasks) + 1)..Len(tasks) :
        /\ tasks[i].user_id # tasks[j].user_id
        /\ tasks[i].user_id # 1 /\ tasks[j].user_id # 1
        /\ tasks[i].deleted_at # NULL /\ tasks[j].deleted_at = NULL

-----------------------------------------------------------------------------
(* The shape of the stored tasks *)

\* the status is one of the three and the title holds a character that is no
\* white space
WellFormedTask(task) ==
    /\ task.status \in {"pending", "in_progress", "completed"}
    /\ \E k \in 1..Len(task.title) : task.title[k] # SP

\* C26: in every state reached through create and update requests, every
\* stored task has a status in {pending, in_progress, completed} and a title
\* that is not empty after trimming white space
C26_WellFormedTasks == \A i \in 1..Len(tasks) : WellFormedTask(tasks[i])

\* a task made through the API has been given a new title and status by an
\* update, after which an update with a blank title was refused
C26_Witness ==
    /\ req.method = "PUT" /\ resp.status = StatusBadRequest
    /\ req.body = JObject(JStr(<<SP>>), JStr(<<"e">>), JStr(TaskStatusCompleted))
    /\ \E i \in (Len(SeedTasks) + 1)..Len(tasks) :
          /\ tasks[i].id = ParseUint(req.path).val
          /\ tasks[i].title = <<"b">> /\ tasks[i].status = TaskStatusInProgress
          /\ tasks[i].updated_at > tasks[i].created_at
          /\ tasks[i].user_id = ctx.UserID

-----------------------------------------------------------------------------
(* The task handlers, several requests of one owner at a time: each handler
   call runs in its own goroutine, without a transaction or a lock, so between
   the first storage call of UpdateTask, DeleteTask and GetTasks (the lookup,
   the count) and the second (the save, the delete, the find) other calls may
   run.  CreateTask makes one storage call. *)

\* the path of the owner's task
OwnTask == Numeral(Len(SeedTasks) + 1)

\* the requests of the owner: two updates of different fields, a delete, two
\* list requests and a create
OverlapRequests ==
    UNION {{UpdateRequest("PUT", h, OwnTask, JObject(JStr(<<"b">>), Absent, Absent), 0),
            UpdateRequest("PUT", h, OwnTask,
                          JObject(Absent, Absent, JStr(TaskStatusCompleted)), 0),
            DeleteRequest(h, OwnTask, 0),
            ListRequest(h, <<>>, <<>>, 0),
            ListRequest(h, <<>>, <<"1">>, 0),
            CreateRequest("POST", h, JObject(JStr(<<"a">>), Absent, Absent), 0)}
           : h \in TaskHeaders}

\* a user has registered and made one task
InitOverlap ==
    /\ now = 1
    /\ users = Append(SeedUsers, PagingUser)
    /\ tasks = Append(SeedTasks, PagingTask(1, 1))
    /\ req = NoRequest
    /\ resp = NoResponse
    /\ ctx = NoUser
    /\ calls = 0
    /\ checked = {}
    /\ issuedTok = NoToken
    /\ validated = NoToken
    /\ regs = NoRegistrations
    /\ ops = NoCalls

\* a call runs from the middleware up to and including its first storage
\* call: it ends there when that was its only one or the handler returns an
\* error, and otherwise holds the task it loaded and changed (UpdateTask,
\* DeleteTask) or the response with the total it counted (GetTasks)
OverlapBegin(p) ==
    /\ ops[p].pc = "idle"
    /\ \E r \in OverlapRequests :
         \E order \in OrdersFor(tasks, r, now) :
           \E out \in {ServeProtected(tasks, r, order, now)} :
             /\ Len(out.tasks) <= Len(SeedTasks) + MaxTasks
             /\ IF r.method = "POST" \/ out.resp.status \notin {StatusOK, StatusNoContent}
                THEN /\ tasks' = out.tasks
                     /\ ops' = [ops EXCEPT ![p] = [pc |-> "done", r |-> r, resp |-> out.resp]]
                ELSE /\ tasks' = tasks
                     /\ ops' = [ops EXCEPT ![p] =
                                  [pc |-> "read", r |-> r, resp |-> out.resp,
                                   task |-> IF r.route = "/api/tasks/"
                                            THEN out.tasks[ParseUint(r.path).val]
                                            ELSE NoTask]]
    /\ UNCHANGED <<now, users, req, resp, ctx, calls, checked, issuedTok, validated, regs>>

\* the second storage call of a call and its response: db.Save and 200 with
\* the saved struct, db.Delete and 204, Find and 200 with the rows found
OverlapFinish(p) ==
    /\ ops[p].pc = "read"
    /\ \E call \in {ops[p]}, upsert \in BOOLEAN :
         \E order \in OrdersFor(tasks, call.r, now) :
           \E out \in {IF call.r.method = "PUT"
                       THEN Result(TaskBody(StatusOK, [call.task EXCEPT !.updated_at = now]),
                                   SaveLoadedTask_db(tasks, call.task, now, upsert))
                       ELSE IF call.r.method = "DELETE"
                       THEN Result(call.resp, DeleteTask_db(tasks, call.task, now))
                       ELSE Result([call.resp EXCEPT !.body.tasks =
                                       ServeProtected(tasks, call.r, order, now)
                                           .resp.body.tasks],
                                   tasks)} :
             /\ tasks' = out.tasks
             /\ ops' = [ops EXCEPT ![p] = [pc |-> "done", r |-> call.r, resp |-> out.resp]]
    /\ UNCHANGED <<now, users, req, resp, ctx, calls, checked, issuedTok, validated, regs>>

\* the response is sent and the goroutine ends
OverlapReturn(p) ==
    /\ ops[p].pc = "done"
    /\ ops' = [ops EXCEPT ![p] = Idle]
    /\ UNCHANGED <<now, users, tasks, req, resp, ctx, calls, checked, issuedTok, validated,
                   regs>>

NextOverlap ==
    \E p \in TaskCalls :
        \/ OverlapBegin(p)
        \/ OverlapFinish(p)
        \/ OverlapReturn(p)

SpecOverlap == InitOverlap /\ [][NextOverlap]_vars

(* Properties of overlapping requests *)

\* the call p is a request of this method on the owner's task, answered with
\* this status
Answered(p, method, status) ==
    /\ ops[p].pc = "done" /\ ops[p].r.route = "/api/tasks/"
    /\ ops[p].r.method = method /\ ops[p].resp.status = status

\* in this step the call p makes the second storage call of a request of this
\* method
Finishes(p, method) ==
    ops[p].pc = "read" /\ ops[p].r.method = method /\ ops'[p].pc = "done"

\* the row of the owner's task
OwnRow == Len(SeedTasks) + 1

\* C24 (as stated): once the deleted-at of a task is set it is never cleared,
\* under any interleaving of requests; in particular when the owner's PUT has
\* read the task and the owner's DELETE commits before the PUT's save
C24_AsStated ==
    [][\A i \in 1..Len(tasks) :
           tasks[i].deleted_at # NULL => tasks'[i].deleted_at = tasks[i].deleted_at]_vars

\* what the code does: no step changes a deleted-at that is set, except the
\* save of a PUT that loaded the task before it was deleted, which may clear it
C24_ClearedOnlyByLateSave ==
    [][\A i \in 1..Len(tasks) :
           (tasks[i].deleted_at # NULL /\ tasks'[i].deleted_at # tasks[i].deleted_at) =>
               /\ tasks'[i].deleted_at = NULL
               /\ \E p \in TaskCalls :
                     Finishes(p, "PUT") /\ ops[p].task.id = tasks[i].id
                     /\ ops[p].task.deleted_at = NULL]_vars

\* the PUT loaded the task, the DELETE was answered 204, then the PUT saved:
\* both are answered, and the task is not deleted
C24_Witness ==
    \E p, q \in TaskCalls :
        /\ Answered(p, "PUT", StatusOK) /\ Answered(q, "DELETE", StatusNoContent)
        /\ tasks[OwnRow].deleted_at = NULL
        /\ tasks[OwnRow].title = ops[p].resp.body.task.title
        /\ tasks[OwnRow].status = ops[p].resp.body.task.status

\* the call p is a PUT answered 200 whose body holds only a title, only a status
TitlePut(p) ==
    Answered(p, "PUT", StatusOK) /\ ops[p].r.body = JObject(JStr(<<"b">>), Absent, Absent)
StatusPut(p) ==
    Answered(p, "PUT", StatusOK)
    /\ ops[p].r.body = JObject(Absent, Absent, JStr(TaskStatusCompleted))

\* C28 (as stated): when two PUT requests of the owner on one task that patch
\* different fields have both returned 200, the stored task carries both new
\* values
C28_AsStated ==
    \A p, q \in TaskCalls :
        (TitlePut(p) /\ StatusPut(q)) =>
            tasks[OwnRow].title = <<"b">> /\ tasks[OwnRow].status = TaskStatusCompleted

\* what the code does: db.Save writes every column from the struct the call
\* loaded, so after the save of a PUT the title, description and status of the
\* row are those of that call's response, whatever was stored in between
C28_LastSaveWins ==
    [][\A p \in TaskCalls :
           (Finishes(p, "PUT") /\ tasks[OwnRow].deleted_at = NULL) =>
               \A saved \in {ops'[p].resp.body.task} :
                   /\ tasks'[OwnRow].title = saved.title
                   /\ tasks'[OwnRow].description = saved.description
                   /\ tasks'[OwnRow].status = saved.status
                   /\ saved.title = ops[p].task.title
                   /\ saved.status = ops[p].task.status]_vars

\* both PUTs are answered 200, the one with the new title in its response, the
\* other with the new status, and the stored task has the old title again
C28_Witness ==
    \E p, q \in TaskCalls :
        /\ TitlePut(p) /\ StatusPut(q)
        /\ ops[p].resp.body.task.title = <<"b">>
        /\ ops[q].resp.body.task.status = TaskStatusCompleted
        /\ tasks[OwnRow].title = PagingTask(1, 1).title
        /\ tasks[OwnRow].status = TaskStatusCompleted
        /\ tasks[OwnRow].deleted_at = NULL

\* C29 (as stated): across any interleaving of DELETE requests of the owner on
\* one task, at most one is answered 204 and every other one 404
C29_AsStated ==
    \A p, q \in TaskCalls :
        (Answered(p, "DELETE", StatusNoContent) /\ Answered(q, "DELETE", StatusNoContent))
            => p = q

\* what the code does: a DELETE that looks the task up after it was deleted is
\* answered 404; one that looked it up before is answered 204 whether or not
\* its db.Delete changed a row, and the deleted-at the first one set stays
C29_LateDeleteIs204 ==
    [][\A p \in TaskCalls :
           /\ (ops[p].pc = "idle" /\ ops'[p].pc = "done" /\ ops'[p].r.method = "DELETE"
               /\ tasks[OwnRow].deleted_at # NULL) =>
                  ops'[p].resp = ErrorResponse(StatusNotFound, "Task not found")
           /\ Finishes(p, "DELETE") =>
                  /\ ops'[p].resp.status = StatusNoContent
                  /\ tasks'[OwnRow].deleted_at # NULL
                  /\ tasks[OwnRow].deleted_at # NULL => tasks' = tasks]_vars

\* two DELETE requests both found the task and both are answered 204; no PUT
\* is in progress
C29_Witness ==
    /\ \A p \in TaskCalls : Answered(p, "DELETE", StatusNoContent)
    /\ tasks[OwnRow].deleted_at # NULL
    /\ tasks[OwnRow].title = PagingTask(1, 1).title
    /\ tasks[OwnRow].status = PagingTask(1, 1).status

\* in this step the call p makes the find query of a list request
FinishesList(p) ==
    ops[p].pc = "read" /\ ops[p].r.route = "/api/tasks" /\ ops'[p].pc = "done"

\* the number of the owner's tasks that are not deleted
OwnLive == Cardinality({i \in 1..Len(tasks) :
                           tasks[i].user_id = PagingUser.id /\ tasks[i].deleted_at = NULL})

\* the list response body comes from one state of the store with n tasks of
\* the owner (the requests here ask for page 1, so the offset is 0): its total
\* is n, it holds no more items than its total, and has_next is not false
\* when the page is full and tasks are left behind it
OneSnapshot(body, n) ==
    /\ body.total = n
    /\ Len(body.tasks) <= body.total
    /\ ~(~body.has_next /\ Len(body.tasks) = body.page_size /\ n > body.page_size)

\* C30 (as stated): every list response corresponds to a single store state,
\* also when creates and deletes of the owner run between its count query and
\* its find query
C30_AsStated ==
    [][\A p \in TaskCalls : FinishesList(p) => OneSnapshot(ops'[p].resp.body, OwnLive)]_vars

\* what the code does: the total, total_pages and has_next of the response
\* are those of the count query, the items are the rows at the time of the
\* find query; they are of one state when no create or delete of the owner
\* came in between
C30_CountThenFind ==
    [][\A p \in TaskCalls :
           FinishesList(p) =>
               \A counted \in {ops[p].resp.body}, body \in {ops'[p].resp.body} :
                   /\ body.total = counted.total /\ body.has_next = counted.has_next
                   /\ body.total_pages = counted.total_pages
                   /\ Len(body.tasks) = (IF OwnLive < body.page_size THEN OwnLive
                                         ELSE body.page_size)
                   /\ \A k \in 1..Len(body.tasks) :
                         tasks[body.tasks[k].id].deleted_at = NULL
                   /\ counted.total = OwnLive => OneSnapshot(body, OwnLive)]_vars

\* a list response with more items than its total: a create was served
\* between the count and the find
C30_Witness ==
    \E p \in TaskCalls :
        /\ ops[p].pc = "done" /\ ops[p].r.route = "/api/tasks" /\ ops[p].r.method = "GET"
        /\ ops[p].resp.status = StatusOK
        /\ Len(ops[p].resp.body.tasks) > ops[p].resp.body.total
        /\ ops[p].resp.body.total = 1

=============================================================================
